---------------------------- MODULE Spec2Model ----------------------------
(***************************************************************************)
(* Swingalyze: the landmark-to-metrics pipeline of backend/pose_analyzer.py *)
(* backend/swing_analyzer.py, backend/server.py and backend/fast_analysis.py*)
(*                                                                         *)
(* Numbers.  Python floats are modelled in fixed point:                    *)
(*   - normalised coordinates in hundredths of the frame (0.1 is 10);      *)
(*   - visibility in tenths (0.5 is 5);                                    *)
(*   - timestamps in milliseconds;                                         *)
(*   - angles in whole degrees; a float NaN is the code 999, which no      *)
(*     computation of the model yields as a number;                        *)
(*   - a quotient of two numbers is kept exact as [num |-> a, den |-> b].  *)
(* A Python dict is a function whose DOMAIN is the set of its keys.        *)
(***************************************************************************)
EXTENDS Integers, Sequences, FiniteSets, TLC

VARIABLES pc, input, frames, result, db, disk, uuids

vars == <<pc, input, frames, result, db, disk, uuids>>

----------------------------------------------------------------------------
(* Bounds of the model                                                     *)

MaxFrames == 17

----------------------------------------------------------------------------
(* Dicts, lists and float helpers                                          *)

NaN == 999

EmptyDict == [k \in {} |-> 0]

Has(d, k) == k \in DOMAIN d

Range(s) == {s[i] : i \in DOMAIN s}

Abs(a) == IF a < 0 THEN -a ELSE a

Min2(a, b) == IF a <= b THEN a ELSE b

Max2(a, b) == IF a >= b THEN a ELSE b

\* the comparison a < b of two floats: False as soon as one is NaN
Lt(a, b) == IF a = NaN \/ b = NaN THEN FALSE ELSE a < b

\* a - b on floats: NaN if one is NaN
Sub(a, b) == IF a = NaN \/ b = NaN THEN NaN ELSE a - b

\* floor of the square root
ISqrt(n) == CHOOSE r \in 0..n : r * r <= n /\ (r + 1) * (r + 1) > n

RECURSIVE SumSeq(_)
SumSeq(s) == IF s = <<>> THEN 0 ELSE s[1] + SumSeq(Tail(s))

\* Python's min(values): the first element that no later one is < than
RECURSIVE PyMinFrom(_, _)
PyMinFrom(m, s) ==
    IF s = <<>> THEN m
    ELSE PyMinFrom(IF Lt(s[1], m) THEN s[1] ELSE m, Tail(s))

PyMin(s) == PyMinFrom(s[1], Tail(s))

\* Python's max(values)
RECURSIVE PyMaxFrom(_, _)
PyMaxFrom(m, s) ==
    IF s = <<>> THEN m
    ELSE PyMaxFrom(IF Lt(m, s[1]) THEN s[1] ELSE m, Tail(s))

PyMax(s) == PyMaxFrom(s[1], Tail(s))

\* np.mean(values) of a non-empty list, exact
NpMean(s) ==
    IF \E i \in DOMAIN s : s[i] = NaN THEN [num |-> NaN, den |-> 1]
    ELSE [num |-> SumSeq(s), den |-> Len(s)]

\* np.argmin(values): the 0-based index of the first minimum
NpArgmin(s) ==
    (CHOOSE i \in DOMAIN s :
        /\ \A j \in DOMAIN s : s[i] <= s[j]
        /\ \A j \in 1..(i - 1) : s[j] > s[i]) - 1

----------------------------------------------------------------------------
(* Angle geometry                                                          *)

\* round(cos(d)^2 * 10^4) for d = 0..90 degrees, at CosSqE4[d + 1]
CosSqE4 ==
    << 10000, 9997, 9988, 9973, 9951, 9924, 9891, 9851, 9806, 9755,
       9698, 9636, 9568, 9494, 9415, 9330, 9240, 9145, 9045, 8940,
       8830, 8716, 8597, 8473, 8346, 8214, 8078, 7939, 7796, 7650,
       7500, 7347, 7192, 7034, 6873, 6710, 6545, 6378, 6210, 6040,
       5868, 5696, 5523, 5349, 5174, 5000, 4826, 4651, 4477, 4304,
       4132, 3960, 3790, 3622, 3455, 3290, 3127, 2966, 2808, 2653,
       2500, 2350, 2204, 2061, 1922, 1786, 1654, 1527, 1403, 1284,
       1170, 1060, 955, 855, 760, 670, 585, 506, 432, 364,
       302, 245, 194, 149, 109, 76, 49, 27, 12, 3, 0 >>

\* floor(a * 10^4 / n) for 0 <= a <= n, n > 0, digit by digit
RatioE4(a, n) ==
    LET q0 == a \div n
        r0 == a % n
        q1 == (r0 * 10) \div n
        r1 == (r0 * 10) % n
        q2 == (r1 * 10) \div n
        r2 == (r1 * 10) % n
        q3 == (r2 * 10) \div n
        r3 == (r2 * 10) % n
        q4 == (r3 * 10) \div n
    IN  q0 * 10000 + q1 * 1000 + q2 * 100 + q3 * 10 + q4

\* np.degrees(np.arccos(np.clip(dot / sqrt(nn), -1.0, 1.0))) for nn > 0,
\* to the degree: the acute part is rounded down
ArccosDeg(dot, nn) ==
    LET c2 == RatioE4(Min2(dot * dot, nn), nn)
        acute == CHOOSE d \in 0..90 :
                    /\ CosSqE4[d + 1] >= c2
                    /\ d < 90 => CosSqE4[d + 2] < c2
    IN  IF dot >= 0 THEN acute ELSE 180 - acute

----------------------------------------------------------------------------
(* pose_analyzer.py: PoseLandmark, SwingFrame, PoseAnalyzer                *)

\* the landmark names the analysis reads (a subset of landmark_names)
LandmarkNames ==
    { "left_shoulder", "right_shoulder", "left_elbow", "right_elbow",
      "left_wrist", "right_wrist", "left_hip", "right_hip",
      "left_knee", "right_knee", "left_ankle", "right_ankle" }

\* PoseLandmark(x, y, z, visibility); z is stored and never read
PoseLandmark(x, y, visibility) == [x |-> x, y |-> y, visibility |-> visibility]

\* calculate_angle(point1, point2, point3): no guard on a zero-length vector,
\* 0.0 / 0.0 is NaN in numpy and NaN goes through clip, arccos and degrees
PoseAnalyzer_calculate_angle(point1, point2, point3) ==
    LET bax == point1.x - point2.x
        bay == point1.y - point2.y
        bcx == point3.x - point2.x
        bcy == point3.y - point2.y
        dot == bax * bcx + bay * bcy
        nn  == (bax * bax + bay * bay) * (bcx * bcx + bcy * bcy)
    IN  IF nn = 0 THEN NaN ELSE ArccosDeg(dot, nn)

\* the landmarks each angle of extract_golf_angles requires
AngleNames == { "left_arm", "right_arm", "spine_tilt", "left_knee", "right_knee" }

RequiredLandmarks(angle_name) ==
    CASE angle_name = "left_arm"   -> { "left_shoulder", "left_elbow", "left_wrist" }
      [] angle_name = "right_arm"  -> { "right_shoulder", "right_elbow", "right_wrist" }
      [] angle_name = "spine_tilt" -> { "left_hip", "left_shoulder", "right_shoulder", "right_hip" }
      [] angle_name = "left_knee"  -> { "left_hip", "left_knee", "left_ankle" }
      [] angle_name = "right_knee" -> { "right_hip", "right_knee", "right_ankle" }

\* The spine tilt: the angle at the shoulder centre between the hip centre and
\* a point 0.1 above the shoulder centre.  The centres are halves of sums; the
\* three points are taken doubled, which leaves the angle unchanged and keeps
\* the halves exact.
SpineTilt(landmarks) ==
    LET hip_center2 == [x |-> landmarks["left_hip"].x + landmarks["right_hip"].x,
                        y |-> landmarks["left_hip"].y + landmarks["right_hip"].y]
        shoulder_center2 ==
            [x |-> landmarks["left_shoulder"].x + landmarks["right_shoulder"].x,
             y |-> landmarks["left_shoulder"].y + landmarks["right_shoulder"].y]
        vertical_ref2 == [x |-> shoulder_center2.x, y |-> shoulder_center2.y - 2 * 10]
    IN  PoseAnalyzer_calculate_angle(hip_center2, shoulder_center2, vertical_ref2)

\* extract_golf_angles(landmarks): each angle whose landmarks are all present
extract_golf_angles(landmarks) ==
    [ a \in { n \in AngleNames : RequiredLandmarks(n) \subseteq DOMAIN landmarks } |->
        CASE a = "left_arm" ->
               PoseAnalyzer_calculate_angle(landmarks["left_shoulder"],
                   landmarks["left_elbow"], landmarks["left_wrist"])
          [] a = "right_arm" ->
               PoseAnalyzer_calculate_angle(landmarks["right_shoulder"],
                   landmarks["right_elbow"], landmarks["right_wrist"])
          [] a = "spine_tilt" -> SpineTilt(landmarks)
          [] a = "left_knee" ->
               PoseAnalyzer_calculate_angle(landmarks["left_hip"],
                   landmarks["left_knee"], landmarks["left_ankle"])
          [] a = "right_knee" ->
               PoseAnalyzer_calculate_angle(landmarks["right_hip"],
                   landmarks["right_knee"], landmarks["right_ankle"]) ]

\* SwingFrame(frame_number, timestamp, landmarks, angles), as process_frame
\* builds it from the landmarks of one frame
SwingFrame(frame_number, timestamp, landmarks) ==
    [ frame_number |-> frame_number, timestamp |-> timestamp,
      landmarks |-> landmarks, angles |-> extract_golf_angles(landmarks) ]

\* timestamp = frame_number / fps if fps > 0 else frame_number * 0.033, in ms
Timestamp(frame_number, fps) ==
    IF fps > 0 THEN (frame_number * 1000) \div fps ELSE frame_number * 33

----------------------------------------------------------------------------
(* swing_analyzer.py: SwingAnalyzer                                        *)

\* the 0-based element i of a Python list
At0(s, i) == s[i + 1]

\* wrist_positions of _detect_swing_phases: one (x, y, frame_number) for each
\* frame that has the right wrist, or else the left wrist
wrist_positions(swing_frames) ==
    LET HasWrist(f) == Has(f.landmarks, "right_wrist") \/ Has(f.landmarks, "left_wrist")
        tracked == SelectSeq(swing_frames, HasWrist)
    IN  [ i \in 1..Len(tracked) |->
            LET wrist == IF Has(tracked[i].landmarks, "right_wrist")
                         THEN tracked[i].landmarks["right_wrist"]
                         ELSE tracked[i].landmarks["left_wrist"]
            IN  [x |-> wrist.x, y |-> wrist.y, frame_number |-> tracked[i].frame_number] ]

\* max_vel_frame with the search over range(1, hi) in place of
\* range(top_frame + 1, hi): the frames before the top are searched as well
max_vel_frame_from_start(y_positions, lo, hi) ==
    LET vel(i) == Abs(At0(y_positions, i) - At0(y_positions, i - 1))
    IN  CHOOSE i \in 1..(hi - 1) :
            /\ \A j \in 1..(hi - 1) : vel(j) <= vel(i)
            /\ \A j \in 1..(i - 1) : vel(j) < vel(i)

\* max(velocities, key=lambda x: x[0])[1] over i in range(lo, hi), taken as
\* 0-based indices into y_positions: the first i with the largest
\* abs(y_positions[i] - y_positions[i-1])
max_vel_frame(y_positions, lo, hi) ==
    LET vel(i) == Abs(At0(y_positions, i) - At0(y_positions, i - 1))
    IN  CHOOSE i \in lo..(hi - 1) :
            /\ \A j \in lo..(hi - 1) : vel(j) <= vel(i)
            /\ \A j \in lo..(i - 1) : vel(j) < vel(i)

\* _detect_swing_phases(swing_frames)
SwingAnalyzer_detect_swing_phases(swing_frames) ==
    IF Len(swing_frames) < 10
    THEN [error |-> "Insufficient frames for phase detection"]
    ELSE
    LET wp == wrist_positions(swing_frames)
    IN  IF Len(wp) < 5
        THEN [error |-> "Insufficient wrist tracking data"]
        ELSE
        LET y_positions == [ i \in 1..Len(wp) |-> wp[i].y ]
            setup_frame == 0
            top_frame == NpArgmin(y_positions)
            lo == top_frame + 1
            hi == Min2(Len(y_positions), top_frame + 15)
            \* "if i > 0" holds for every i >= top_frame + 1
            impact_frame ==
                IF top_frame < Len(y_positions) - 5 /\ lo < hi
                THEN max_vel_frame(y_positions, lo, hi)
                ELSE Len(wp) - 1
            impact_index == Min2(impact_frame, Len(swing_frames) - 1)
        IN  [ setup |->
                [frame |-> setup_frame,
                 timestamp |-> At0(swing_frames, setup_frame).timestamp],
              top_of_backswing |->
                [frame |-> top_frame,
                 timestamp |-> At0(swing_frames, top_frame).timestamp],
              impact |->
                [frame |-> impact_index,
                 timestamp |-> At0(swing_frames, impact_index).timestamp],
              follow_through |->
                [frame |-> Len(swing_frames) - 1,
                 timestamp |-> swing_frames[Len(swing_frames)].timestamp] ]

\* the wrist speeds of _calculate_swing_metrics, in hundredths of the frame
\* per second and rounded down
wrist_speeds(swing_frames) ==
    LET Moves(i) ==
            /\ Has(swing_frames[i].landmarks, "right_wrist")
            /\ Has(swing_frames[i - 1].landmarks, "right_wrist")
            /\ swing_frames[i].timestamp - swing_frames[i - 1].timestamp > 0
        speed(i) ==
            LET curr_wrist == swing_frames[i].landmarks["right_wrist"]
                prev_wrist == swing_frames[i - 1].landmarks["right_wrist"]
                dx == curr_wrist.x - prev_wrist.x
                dy == curr_wrist.y - prev_wrist.y
                time_diff == swing_frames[i].timestamp - swing_frames[i - 1].timestamp
            IN  (ISqrt(dx * dx + dy * dy) * 1000) \div time_diff
        idx == SelectSeq([i \in 1..(Len(swing_frames) - 1) |-> i + 1], Moves)
    IN  [ k \in 1..Len(idx) |-> speed(idx[k]) ]

\* tempo_metrics with the guard "downswing_time >= 0" in place of
\* "downswing_time > 0": the key is then set for a downswing of no duration
tempo_metrics_nonnegative(phases) ==
    IF Has(phases, "setup") /\ Has(phases, "top_of_backswing") /\ Has(phases, "impact")
    THEN LET backswing_time ==
                 phases["top_of_backswing"].timestamp - phases["setup"].timestamp
             downswing_time ==
                 phases["impact"].timestamp - phases["top_of_backswing"].timestamp
         IN  IF downswing_time >= 0
             THEN [ k \in {"tempo_ratio"} |->
                      [num |-> backswing_time, den |-> downswing_time] ]
             ELSE EmptyDict
    ELSE EmptyDict

\* metrics["tempo_ratio"] of _calculate_swing_metrics, as a dict that holds
\* the key or not
tempo_metrics(phases) ==
    IF Has(phases, "setup") /\ Has(phases, "top_of_backswing") /\ Has(phases, "impact")
    THEN LET backswing_time ==
                 phases["top_of_backswing"].timestamp - phases["setup"].timestamp
             downswing_time ==
                 phases["impact"].timestamp - phases["top_of_backswing"].timestamp
         IN  IF downswing_time > 0
             THEN [ k \in {"tempo_ratio"} |->
                      [num |-> backswing_time, den |-> downswing_time] ]
             ELSE EmptyDict
    ELSE EmptyDict

\* _calculate_swing_metrics(swing_frames)
calculate_swing_metrics(swing_frames) ==
    LET speeds == wrist_speeds(swing_frames)
        speed_metrics ==
            IF Len(speeds) > 0
            THEN [ k \in {"max_wrist_speed", "avg_wrist_speed"} |->
                     IF k = "max_wrist_speed"
                     THEN [num |-> PyMax(speeds), den |-> 1]
                     ELSE NpMean(speeds) ]
            ELSE EmptyDict
    IN  speed_metrics @@ tempo_metrics(SwingAnalyzer_detect_swing_phases(swing_frames))

\* _analyze_body_angles(swing_frames)
analyze_body_angles(swing_frames) ==
    LET names == UNION { DOMAIN swing_frames[i].angles : i \in DOMAIN swing_frames }
        values(n) ==
            LET Carries(f) == Has(f.angles, n)
                carrying == SelectSeq(swing_frames, Carries)
            IN  [ i \in 1..Len(carrying) |-> carrying[i].angles[n] ]
    IN  [ n \in { m \in names : Len(values(m)) > 0 } |->
            [ min |-> PyMin(values(n)),
              max |-> PyMax(values(n)),
              avg |-> NpMean(values(n)),
              range |-> Sub(PyMax(values(n)), PyMin(values(n))) ] ]

\* hip_positions of _analyze_movement_patterns: the hip centre of each frame
\* that has both hips (whole hundredths: the halves are rounded down)
hip_positions(swing_frames) ==
    LET HasHips(f) == Has(f.landmarks, "left_hip") /\ Has(f.landmarks, "right_hip")
        with_hips == SelectSeq(swing_frames, HasHips)
    IN  [ i \in 1..Len(with_hips) |->
            [ x |-> (with_hips[i].landmarks["left_hip"].x
                       + with_hips[i].landmarks["right_hip"].x) \div 2,
              y |-> (with_hips[i].landmarks["left_hip"].y
                       + with_hips[i].landmarks["right_hip"].y) \div 2 ] ]

\* analyze_movement_patterns with the guard "len(hip_positions) > 2" in place
\* of "len(hip_positions) > 1"
analyze_movement_patterns_over_two(swing_frames) ==
    LET hp == hip_positions(swing_frames)
        hip_movements ==
            [ i \in 1..(Len(hp) - 1) |->
                ISqrt((hp[i + 1].x - hp[i].x) * (hp[i + 1].x - hp[i].x)
                      + (hp[i + 1].y - hp[i].y) * (hp[i + 1].y - hp[i].y)) ]
    IN  IF Len(hp) > 2
        THEN [ k \in {"hip_stability"} |->
                 [ avg_movement |-> NpMean(hip_movements),
                   max_movement |-> PyMax(hip_movements),
                   total_movement |-> SumSeq(hip_movements) ] ]
        ELSE EmptyDict

\* _analyze_movement_patterns(swing_frames)
analyze_movement_patterns(swing_frames) ==
    LET hp == hip_positions(swing_frames)
        hip_movements ==
            [ i \in 1..(Len(hp) - 1) |->
                ISqrt((hp[i + 1].x - hp[i].x) * (hp[i + 1].x - hp[i].x)
                      + (hp[i + 1].y - hp[i].y) * (hp[i + 1].y - hp[i].y)) ]
    IN  IF Len(hp) > 1
        THEN [ k \in {"hip_stability"} |->
                 [ avg_movement |-> NpMean(hip_movements),
                   max_movement |-> PyMax(hip_movements),
                   total_movement |-> SumSeq(hip_movements) ] ]
        ELSE EmptyDict

\* _analyze_swing_sequence(swing_frames)
analyze_swing_sequence(swing_frames) ==
    [ swing_phases |-> SwingAnalyzer_detect_swing_phases(swing_frames),
      swing_metrics |-> calculate_swing_metrics(swing_frames),
      body_angles |-> analyze_body_angles(swing_frames),
      movement_analysis |-> analyze_movement_patterns(swing_frames) ]

\* comparisons of an exact quotient r (r.den > 0, or r.num = NaN) with a number
\* given in tenths: r < t/10 and r > t/10; False when r is NaN
RatLt(r, tenths) == IF r.num = NaN THEN FALSE ELSE r.num * 10 < tenths * r.den

RatGt(r, tenths) == IF r.num = NaN THEN FALSE ELSE r.num * 10 > tenths * r.den

\* lo/10 <= r <= hi/10
RatIn(r, lo, hi) ==
    IF r.num = NaN THEN FALSE
    ELSE lo * r.den <= r.num * 10 /\ r.num * 10 <= hi * r.den

\* the sentences _generate_recommendations appends, in the order of the code
SwingRecTempo(metrics) ==
    IF Has(metrics, "tempo_ratio")
    THEN IF RatLt(metrics["tempo_ratio"], 20)
         THEN <<"Your swing is too quick - try slowing down your backswing for better tempo">>
         ELSE IF RatGt(metrics["tempo_ratio"], 40)
         THEN <<"Your backswing is too slow - try to create more rhythm between backswing and downswing">>
         ELSE <<"Good swing tempo - maintain this rhythm">>
    ELSE <<>>

SwingRecSpine(angles) ==
    IF Has(angles, "spine_tilt") /\ Lt(20, angles["spine_tilt"].range)
    THEN <<"Try to maintain spine angle throughout the swing - excessive movement can affect consistency">>
    ELSE <<>>

SwingRecArms(angles) ==
    IF /\ Has(angles, "left_arm") /\ Has(angles, "right_arm")
       /\ LET d == Sub(angles["left_arm"].range, angles["right_arm"].range)
          IN  d # NaN /\ Abs(d) > 15
    THEN <<"Work on arm synchronization - both arms should move more similarly throughout the swing">>
    ELSE <<>>

SwingRecHips(movement) ==
    IF Has(movement, "hip_stability") /\ movement["hip_stability"].total_movement > 10
    THEN <<"Focus on maintaining stable lower body - excessive hip movement can affect balance">>
    ELSE <<>>

\* _generate_recommendations(swing_analysis)
SwingAnalyzer_generate_recommendations(swing_analysis) ==
    LET recommendations ==
            SwingRecTempo(swing_analysis.swing_metrics)
            \o SwingRecSpine(swing_analysis.body_angles)
            \o SwingRecArms(swing_analysis.body_angles)
            \o SwingRecHips(swing_analysis.movement_analysis)
    IN  IF Len(recommendations) = 0
        THEN << "Overall swing mechanics look good - continue practicing to maintain consistency",
                "Consider working with a golf professional for advanced techniques" >>
        ELSE recommendations

\* the tempo term of _calculate_overall_score
TempoScore(metrics) ==
    IF Has(metrics, "tempo_ratio")
    THEN IF RatIn(metrics["tempo_ratio"], 25, 35) THEN 10
         ELSE IF RatIn(metrics["tempo_ratio"], 20, 40) THEN 5
         ELSE -5
    ELSE 0

\* angle_consistency_score: +2 for each angle of range < 15, -2 for each of
\* range > 30
angle_consistency_score(angles) ==
    2 * Cardinality({ a \in DOMAIN angles : Lt(angles[a].range, 15) })
    - 2 * Cardinality({ a \in DOMAIN angles : Lt(30, angles[a].range) })

\* the hip term of _calculate_overall_score
StabilityScore(movement) ==
    IF Has(movement, "hip_stability")
    THEN IF movement["hip_stability"].total_movement < 5 THEN 5
         ELSE IF movement["hip_stability"].total_movement > 15 THEN -10
         ELSE 0
    ELSE 0

\* the sum without min(angle_consistency_score, 15): the whole net of the
\* angles is added
raw_score_uncapped(swing_analysis) ==
    70 + TempoScore(swing_analysis.swing_metrics)
       + angle_consistency_score(swing_analysis.body_angles)
       + StabilityScore(swing_analysis.movement_analysis)

\* the sum _calculate_overall_score clamps
raw_score(swing_analysis) ==
    70 + TempoScore(swing_analysis.swing_metrics)
       + Min2(angle_consistency_score(swing_analysis.body_angles), 15)
       + StabilityScore(swing_analysis.movement_analysis)

\* calculate_overall_score without the final max(0, min(100, score))
calculate_overall_score_unclamped(swing_analysis) ==
    raw_score(swing_analysis)

\* _calculate_overall_score(swing_analysis)
calculate_overall_score(swing_analysis) ==
    Max2(0, Min2(100, raw_score(swing_analysis)))

\* analyze_video(video_path, analysis_id) from the end of the frame loop on:
\* swing_frames holds the frames in which a pose was detected
analyze_video(swing_frames) ==
    IF Len(swing_frames) < 5
    THEN [ status |-> "error",
           detail |-> "Analysis failed: Insufficient pose data detected in video - please ensure golfer is clearly visible" ]
    ELSE LET swing_analysis == analyze_swing_sequence(swing_frames)
         IN  [ status |-> "ok",
               pose_data |-> [total_frames_analyzed |-> Len(swing_frames)],
               swing_analysis |-> swing_analysis,
               recommendations |-> SwingAnalyzer_generate_recommendations(swing_analysis),
               overall_score |-> calculate_overall_score(swing_analysis) ]

----------------------------------------------------------------------------
(* server.py: GolfPoseDetector                                             *)

\* calculate_joint_angle(point1, point2, point3): guarded, 0.0 on a
\* zero-length vector
GolfPoseDetector_calculate_joint_angle(point1, point2, point3) ==
    LET v1x == point1.x - point2.x
        v1y == point1.y - point2.y
        v2x == point3.x - point2.x
        v2y == point3.y - point2.y
        norm1sq == v1x * v1x + v1y * v1y
        norm2sq == v2x * v2x + v2y * v2y
    IN  IF norm1sq = 0 \/ norm2sq = 0 THEN 0
        ELSE ArccosDeg(v1x * v2x + v1y * v2y, norm1sq * norm2sq)

\* calculate_spine_angle(left_shoulder, right_shoulder, left_hip, right_hip):
\* the angle of the spine vector (hip midpoint to shoulder midpoint) with the
\* vertical (0, -1); no guard, 0.0 / 0.0 is NaN when the midpoints coincide.
\* The midpoints are taken doubled, which leaves the angle unchanged.
GolfPoseDetector_calculate_spine_angle(left_shoulder, right_shoulder, left_hip, right_hip) ==
    LET sx == (left_shoulder.x + right_shoulder.x) - (left_hip.x + right_hip.x)
        sy == (left_shoulder.y + right_shoulder.y) - (left_hip.y + right_hip.y)
    IN  IF sx * sx + sy * sy = 0 THEN NaN
        ELSE ArccosDeg(-sy, sx * sx + sy * sy)

ServerAngleNames ==
    { "spine_angle", "left_arm_angle", "right_arm_angle", "left_knee_angle" }

ServerRequiredLandmarks(angle_name) ==
    CASE angle_name = "spine_angle" ->
           { "left_shoulder", "right_shoulder", "left_hip", "right_hip" }
      [] angle_name = "left_arm_angle" -> { "left_shoulder", "left_elbow", "left_wrist" }
      [] angle_name = "right_arm_angle" -> { "right_shoulder", "right_elbow", "right_wrist" }
      [] angle_name = "left_knee_angle" -> { "left_hip", "left_knee", "left_ankle" }

\* calculate_golf_angles(landmarks)
calculate_golf_angles(landmarks) ==
    [ a \in { n \in ServerAngleNames : ServerRequiredLandmarks(n) \subseteq DOMAIN landmarks } |->
        CASE a = "spine_angle" ->
               GolfPoseDetector_calculate_spine_angle(landmarks["left_shoulder"],
                   landmarks["right_shoulder"], landmarks["left_hip"], landmarks["right_hip"])
          [] a = "left_arm_angle" ->
               GolfPoseDetector_calculate_joint_angle(landmarks["left_shoulder"],
                   landmarks["left_elbow"], landmarks["left_wrist"])
          [] a = "right_arm_angle" ->
               GolfPoseDetector_calculate_joint_angle(landmarks["right_shoulder"],
                   landmarks["right_elbow"], landmarks["right_wrist"])
          [] a = "left_knee_angle" ->
               GolfPoseDetector_calculate_joint_angle(landmarks["left_hip"],
                   landmarks["left_knee"], landmarks["left_ankle"]) ]

\* pose_data of one detected frame: extract_landmarks, then frame_index and
\* timestamp = frame_index / fps as process_golf_video_analysis sets them
PoseData(frame_index, fps, landmarks) ==
    [ frame_index |-> frame_index,
      timestamp |-> (frame_index * 1000) \div fps,
      landmarks |-> landmarks,
      angles |-> calculate_golf_angles(landmarks) ]

----------------------------------------------------------------------------
(* server.py: the analysis of frame_data                                   *)

\* np.std(values) of a non-empty list, as its exact variance
\* (n * sum(x^2) - sum(x)^2) / n^2
NpStd(s) ==
    IF \E i \in DOMAIN s : s[i] = NaN THEN [var_num |-> NaN, var_den |-> 1]
    ELSE [ var_num |-> Len(s) * SumSeq([i \in DOMAIN s |-> s[i] * s[i]])
                         - SumSeq(s) * SumSeq(s),
           var_den |-> Len(s) * Len(s) ]

\* std > t
StdGt(std, t) ==
    IF std.var_num = NaN THEN FALSE ELSE std.var_num > t * t * std.var_den

\* the values of one angle over the frames that carry it
AngleValues(phase_frames, angle_name) ==
    LET Carries(f) == Has(f.angles, angle_name)
        carrying == SelectSeq(phase_frames, Carries)
    IN  [ i \in 1..Len(carrying) |-> carrying[i].angles[angle_name] ]

\* phase_frames of extract_phase_metrics: the frames whose frame_index lies
\* in [start_frame, end_frame]
phase_frames_of(frame_data, start_frame, end_frame) ==
    LET InPhase(f) == start_frame <= f.frame_index /\ f.frame_index <= end_frame
    IN  SelectSeq(frame_data, InPhase)

\* extract_phase_metrics without the tests "if spine_angles", "if
\* left_arm_angles" and "if right_arm_angles": every key is set for a phase
\* that has frames, 0.0 standing for an angle no frame carries
extract_phase_metrics_all_keys(frame_data, start_frame, end_frame) ==
    LET phase_frames == phase_frames_of(frame_data, start_frame, end_frame)
        Mean0(values) == IF Len(values) > 0 THEN NpMean(values) ELSE [num |-> 0, den |-> 1]
        Std0(values) == IF Len(values) > 0 THEN NpStd(values)
                        ELSE [var_num |-> 0, var_den |-> 1]
    IN  IF Len(phase_frames) = 0 THEN EmptyDict
        ELSE [ k \in { "avg_spine_angle", "spine_angle_consistency",
                       "avg_left_arm_angle", "avg_right_arm_angle" } |->
                 CASE k = "avg_spine_angle" -> Mean0(AngleValues(phase_frames, "spine_angle"))
                   [] k = "spine_angle_consistency" ->
                        Std0(AngleValues(phase_frames, "spine_angle"))
                   [] k = "avg_left_arm_angle" ->
                        Mean0(AngleValues(phase_frames, "left_arm_angle"))
                   [] k = "avg_right_arm_angle" ->
                        Mean0(AngleValues(phase_frames, "right_arm_angle")) ]

\* extract_phase_metrics(frame_data, start_frame, end_frame)
extract_phase_metrics(frame_data, start_frame, end_frame) ==
    LET phase_frames == phase_frames_of(frame_data, start_frame, end_frame)
        spine_angles == AngleValues(phase_frames, "spine_angle")
        left_arm_angles == AngleValues(phase_frames, "left_arm_angle")
        right_arm_angles == AngleValues(phase_frames, "right_arm_angle")
        keys == (IF Len(spine_angles) > 0
                 THEN {"avg_spine_angle", "spine_angle_consistency"} ELSE {})
                \cup (IF Len(left_arm_angles) > 0 THEN {"avg_left_arm_angle"} ELSE {})
                \cup (IF Len(right_arm_angles) > 0 THEN {"avg_right_arm_angle"} ELSE {})
    IN  IF Len(phase_frames) = 0 THEN EmptyDict
        ELSE [ k \in keys |->
                 CASE k = "avg_spine_angle" -> NpMean(spine_angles)
                   [] k = "spine_angle_consistency" -> NpStd(spine_angles)
                   [] k = "avg_left_arm_angle" -> NpMean(left_arm_angles)
                   [] k = "avg_right_arm_angle" -> NpMean(right_arm_angles) ]

\* int(total_frames * fraction) for fraction = percent / 100
IntFraction(total_frames, percent) == (total_frames * percent) \div 100

Phase(frame_data, phase_name, start_frame, end_frame) ==
    [ phase_name |-> phase_name,
      start_frame |-> start_frame,
      end_frame |-> end_frame,
      key_metrics |-> extract_phase_metrics(frame_data, start_frame, end_frame) ]

\* the frames of frame_data that have the right wrist
server_wrist_positions(frame_data) ==
    LET HasWrist(f) == Has(f.landmarks, "right_wrist")
    IN  SelectSeq(frame_data, HasWrist)

\* analyze_swing_phases(frame_data)
analyze_swing_phases(frame_data) ==
    LET total_frames == Len(server_wrist_positions(frame_data))
    IN  IF Len(frame_data) = 0 \/ total_frames < 10 THEN <<>>
        ELSE << Phase(frame_data, "address", 0, IntFraction(total_frames, 15)),
                Phase(frame_data, "backswing", IntFraction(total_frames, 15),
                      IntFraction(total_frames, 45)),
                Phase(frame_data, "top_backswing", IntFraction(total_frames, 45),
                      IntFraction(total_frames, 55)),
                Phase(frame_data, "downswing", IntFraction(total_frames, 55),
                      IntFraction(total_frames, 75)),
                Phase(frame_data, "follow_through", IntFraction(total_frames, 75),
                      total_frames - 1) >>

\* the least common multiple of 1..12, the sizes a landmark map can have
QualityDen == 27720

\* the frames of calculate_pose_tracking_quality that count: "if landmarks"
frames_with_landmarks(frame_data) ==
    LET NonEmpty(f) == DOMAIN f.landmarks # {}
    IN  SelectSeq(frame_data, NonEmpty)

\* visible_count / len(landmarks) of one frame, times QualityDen
frame_quality(f) ==
    Cardinality({ n \in DOMAIN f.landmarks : f.landmarks[n].visibility > 5 })
        * (QualityDen \div Cardinality(DOMAIN f.landmarks))

\* calculate_pose_tracking_quality with valid_frames counting every frame of
\* frame_data, the frames without landmarks included
calculate_pose_tracking_quality_all_frames(frame_data) ==
    LET counted == frames_with_landmarks(frame_data)
        total_quality == SumSeq([i \in 1..Len(counted) |-> frame_quality(counted[i])])
    IN  IF Len(frame_data) = 0 \/ Len(counted) = 0 THEN [num |-> 0, den |-> 1]
        ELSE [num |-> total_quality, den |-> QualityDen * Len(frame_data)]

\* calculate_pose_tracking_quality(frame_data), exact
calculate_pose_tracking_quality(frame_data) ==
    LET counted == frames_with_landmarks(frame_data)
        valid_frames == Len(counted)
        total_quality == SumSeq([i \in 1..valid_frames |-> frame_quality(counted[i])])
    IN  IF Len(frame_data) = 0 \/ valid_frames = 0 THEN [num |-> 0, den |-> 1]
        ELSE [num |-> total_quality, den |-> QualityDen * valid_frames]

\* calculate_swing_tempo(frame_data): the tempo class and the duration in ms
calculate_swing_tempo(frame_data) ==
    LET total_duration == frame_data[Len(frame_data)].timestamp - frame_data[1].timestamp
    IN  IF Len(frame_data) < 2 THEN [tempo |-> "unknown", duration |-> 0]
        ELSE IF total_duration <= 0 THEN [tempo |-> "unknown", duration |-> 0]
        ELSE [ tempo |-> IF total_duration < 1200 THEN "fast"
                         ELSE IF total_duration > 2000 THEN "slow"
                         ELSE "moderate",
               duration |-> total_duration ]

\* overall_metrics of calculate_biomechanical_metrics
overall_metrics_of(frame_data) ==
    LET spine_angles == AngleValues(frame_data, "spine_angle")
        right_arm_angles == AngleValues(frame_data, "right_arm_angle")
        keys == (IF Len(spine_angles) > 0
                 THEN {"spine_angle_avg", "spine_angle_std", "spine_angle_range"} ELSE {})
                \cup (IF Len(right_arm_angles) > 0
                      THEN {"arm_extension_avg", "arm_extension_consistency"} ELSE {})
    IN  [ k \in keys |->
            CASE k = "spine_angle_avg" -> NpMean(spine_angles)
              [] k = "spine_angle_std" -> NpStd(spine_angles)
              [] k = "spine_angle_range" -> Sub(PyMax(spine_angles), PyMin(spine_angles))
              [] k = "arm_extension_avg" -> NpMean(right_arm_angles)
              [] k = "arm_extension_consistency" -> NpStd(right_arm_angles) ]

\* calculate_biomechanical_metrics(frame_data, swing_phases); the shoulder
\* rotation of body_rotation is not modelled, nothing reads it
calculate_biomechanical_metrics(frame_data, swing_phases) ==
    [ overall_metrics |-> IF Len(frame_data) > 0 THEN overall_metrics_of(frame_data)
                          ELSE EmptyDict,
      phase_metrics |->
          [ n \in { swing_phases[i].phase_name : i \in DOMAIN swing_phases } |->
              (CHOOSE ph \in Range(swing_phases) : ph.phase_name = n).key_metrics ],
      ghost_skeleton_insights |->
          IF Len(frame_data) > 0
          THEN [ k \in {"pose_tracking_quality", "swing_tempo"} |->
                   IF k = "pose_tracking_quality"
                   THEN calculate_pose_tracking_quality(frame_data)
                   ELSE calculate_swing_tempo(frame_data) ]
          ELSE EmptyDict ]

\* the sentences generate_swing_recommendations appends, in the order of the
\* code; "if x" on a float is x != 0
ServerRecPosture(overall_metrics) ==
    IF Has(overall_metrics, "spine_angle_avg") /\ overall_metrics["spine_angle_avg"].num # 0
    THEN IF RatGt(overall_metrics["spine_angle_avg"], 250)
         THEN <<"Consider maintaining a more upright posture at address. Your spine angle is quite bent.">>
         ELSE IF RatLt(overall_metrics["spine_angle_avg"], 100)
         THEN <<"You might benefit from slightly more forward bend in your posture for better swing plane.">>
         ELSE <<>>
    ELSE <<>>

ServerRecSpineStd(overall_metrics) ==
    IF /\ Has(overall_metrics, "spine_angle_std")
       /\ overall_metrics["spine_angle_std"].var_num # 0
       /\ StdGt(overall_metrics["spine_angle_std"], 10)
    THEN <<"Focus on maintaining consistent posture throughout your swing for better repeatability.">>
    ELSE <<>>

ServerRecArm(overall_metrics) ==
    IF /\ Has(overall_metrics, "arm_extension_consistency")
       /\ overall_metrics["arm_extension_consistency"].var_num # 0
       /\ StdGt(overall_metrics["arm_extension_consistency"], 15)
    THEN <<"Work on maintaining consistent arm extension for more reliable ball striking.">>
    ELSE <<>>

\* pose_quality < 0.7, with ghost_insights.get('pose_tracking_quality', 0)
ServerRecQuality(ghost_insights) ==
    IF \/ ~Has(ghost_insights, "pose_tracking_quality")
       \/ RatLt(ghost_insights["pose_tracking_quality"], 7)
    THEN <<"Consider practicing in better lighting or with less background clutter for improved analysis accuracy.">>
    ELSE <<>>

ServerRecTempo(ghost_insights) ==
    IF Has(ghost_insights, "swing_tempo") /\ ghost_insights["swing_tempo"].tempo = "fast"
    THEN <<"Your swing tempo is quite fast. Try slowing down for better control and consistency.">>
    ELSE IF Has(ghost_insights, "swing_tempo") /\ ghost_insights["swing_tempo"].tempo = "slow"
    THEN <<"Your swing tempo is quite slow. Consider slightly increasing pace for more natural rhythm.">>
    ELSE <<>>

\* generate_swing_recommendations(biomechanical_data)
generate_swing_recommendations(biomechanical_data) ==
    LET recommendations ==
            ServerRecPosture(biomechanical_data.overall_metrics)
            \o ServerRecSpineStd(biomechanical_data.overall_metrics)
            \o ServerRecArm(biomechanical_data.overall_metrics)
            \o ServerRecQuality(biomechanical_data.ghost_skeleton_insights)
            \o ServerRecTempo(biomechanical_data.ghost_skeleton_insights)
    IN  IF Len(recommendations) = 0
        THEN <<"Great swing! Your biomechanics look solid. Keep practicing to maintain consistency.">>
        ELSE recommendations

\* process_golf_video_analysis(video_path, video_id) from the end of the frame
\* loop on: frame_data holds the pose data of the frames with a pose, and
\* valid_frames = len(frame_data)
process_golf_video_analysis(frame_data) ==
    IF Len(frame_data) < 5
    THEN [ status |-> "ok",
           swing_phases |-> <<>>,
           biomechanical_data |->
               [ overall_metrics |-> EmptyDict,
                 phase_metrics |-> EmptyDict,
                 ghost_skeleton_insights |->
                     [ k \in {"pose_tracking_quality", "swing_tempo"} |->
                         IF k = "pose_tracking_quality" THEN [num |-> 0, den |-> 1]
                         ELSE [tempo |-> "unknown", duration |-> 0] ] ],
           recommendations |->
               << "Unable to detect clear pose landmarks in this video.",
                  "For better analysis, ensure good lighting and clear visibility of the golfer.",
                  "Consider recording from a side angle with the full body visible.",
                  "Make sure the golfer is clearly distinguishable from the background." >>,
           total_frames |-> Len(frame_data) ]
    ELSE LET swing_phases == analyze_swing_phases(frame_data)
             biomechanical_data == calculate_biomechanical_metrics(frame_data, swing_phases)
         IN  [ status |-> "ok",
               swing_phases |-> swing_phases,
               biomechanical_data |-> biomechanical_data,
               recommendations |-> generate_swing_recommendations(biomechanical_data),
               total_frames |-> Len(frame_data) ]

----------------------------------------------------------------------------
(* fast_analysis.py: FastSwingAnalyzer.  Degrees and mph are in tenths, the *)
(* tempo ratio in hundredths, seconds in tenths, confidence in thousandths *)

\* round(a / b) for b > 0, halves to the even neighbour as Python's round
RoundDiv(a, b) ==
    LET q == a \div b
        r == a % b
    IN  IF 2 * r < b THEN q
        ELSE IF 2 * r > b THEN q + 1
        ELSE IF q % 2 = 0 THEN q ELSE q + 1

\* _generate_enhanced_metrics(video_metrics); draw holds the values the six
\* calls of random.uniform return, in the order of the code
generate_enhanced_metrics(video_metrics, draw) ==
    LET \* min(1.0, motion_intensity / 100.0), in hundredths
        motion_factor == Min2(100, video_metrics.motion_intensity)
        \* min(duration, 3.0) in ms
        duration == Min2(video_metrics.duration, 3000)
        base_shoulder_rotation == 400 + RoundDiv(motion_factor * 250, 100) + draw.shoulder
    IN  [ club_path_deg |-> RoundDiv(draw.club_path * (1000 + 3 * motion_factor), 1000),
          face_to_path_deg |-> RoundDiv(draw.face_to_path * (1000 + 2 * motion_factor), 1000),
          attack_angle_deg |-> draw.attack_angle,
          tempo_ratio |-> 250 + RoundDiv(duration * 100, 3000) + draw.tempo,
          shoulder_rotation_deg |-> base_shoulder_rotation,
          hip_rotation_deg |-> RoundDiv(base_shoulder_rotation * 7, 10),
          swing_speed_mph |-> 850 + RoundDiv(motion_factor * 200, 100) + draw.swing_speed ]

\* _identify_swing_phases()
identify_swing_phases ==
    << [name |-> "Address", start_frame |-> 0],
       [name |-> "Takeaway", start_frame |-> 5],
       [name |-> "Backswing", start_frame |-> 12],
       [name |-> "Top", start_frame |-> 20],
       [name |-> "Downswing", start_frame |-> 25],
       [name |-> "Impact", start_frame |-> 35],
       [name |-> "Follow Through", start_frame |-> 40] >>

\* metrics.get(key, default)
Get(metrics, key, default) == IF Has(metrics, key) THEN metrics[key] ELSE default

FastRecClubPath(club_path) ==
    IF Abs(club_path) > 40
    THEN IF club_path > 0
         THEN <<"Work on swing path - coming over the top. Practice inside-out drills.">>
         ELSE <<"Swing path too inside - focus on proper takeaway and plane.">>
    ELSE IF Abs(club_path) < 10
    THEN <<"Excellent swing path! Maintain this consistency.">>
    ELSE <<>>

FastRecFace(face_to_path) ==
    IF Abs(face_to_path) > 30
    THEN IF face_to_path > 0
         THEN <<"Club face open at impact - work on grip and release.">>
         ELSE <<"Club face closed at impact - check grip strength.">>
    ELSE <<>>

FastRecAttack(attack_angle) ==
    IF attack_angle < -60
    THEN <<"Too steep - practice hitting up on the ball more.">>
    ELSE IF attack_angle > -20
    THEN <<"Angle of attack too shallow - work on descending blow.">>
    ELSE <<"Good attack angle for solid contact.">>

FastRecTempo(tempo) ==
    IF tempo < 250
    THEN <<"Backswing too quick - slow down for better timing.">>
    ELSE IF tempo > 350
    THEN <<"Backswing too slow - add some rhythm to downswing.">>
    ELSE <<"Great tempo ratio - maintain this timing.">>

FastRecSpeed(swing_speed) ==
    IF swing_speed < 850
    THEN <<"Work on generating more clubhead speed through rotation.">>
    ELSE IF swing_speed > 1050
    THEN <<"Great speed! Focus on control and consistency.">>
    ELSE <<>>

additional ==
    << "Practice with alignment sticks for better setup",
       "Record swings regularly to track progress",
       "Work on balance throughout the swing",
       "Focus on smooth tempo and rhythm",
       "Practice impact drills for solid contact" >>

\* the loop "for rec in additional" from its i-th entry on: append what is
\* not there yet, and break once there are 5 recommendations
RECURSIVE TopUp(_, _)
TopUp(recommendations, i) ==
    IF i > Len(additional) THEN recommendations
    ELSE IF additional[i] \in Range(recommendations) THEN TopUp(recommendations, i + 1)
    ELSE IF Len(recommendations) + 1 >= 5 THEN Append(recommendations, additional[i])
    ELSE TopUp(Append(recommendations, additional[i]), i + 1)

\* _generate_recommendations(metrics) of FastSwingAnalyzer
FastSwingAnalyzer_generate_recommendations(metrics) ==
    LET rules == FastRecClubPath(Get(metrics, "club_path_deg", 0))
                 \o FastRecFace(Get(metrics, "face_to_path_deg", 0))
                 \o FastRecAttack(Get(metrics, "attack_angle_deg", -40))
                 \o FastRecTempo(Get(metrics, "tempo_ratio", 300))
                 \o FastRecSpeed(Get(metrics, "swing_speed_mph", 900))
        recommendations == IF Len(rules) < 3 THEN TopUp(rules, 1) ELSE rules
    IN  SubSeq(recommendations, 1, Min2(6, Len(recommendations)))

\* quick_analysis(video_path) on its normal path; processing_time is the
\* difference of the two readings of the event loop's clock
quick_analysis(video_metrics, draw, processing_time) ==
    LET metrics == generate_enhanced_metrics(video_metrics, draw)
    IN  [ status |-> "ok",
          processing_time |-> processing_time,
          metrics |-> metrics,
          phases |-> identify_swing_phases,
          recommendations |-> FastSwingAnalyzer_generate_recommendations(metrics),
          confidence |-> Min2(950, 700 + (30 - processing_time) * 10) ]

\* _fallback_analysis()
fallback_analysis ==
    [ status |-> "fallback",
      processing_time |-> 0,
      metrics |-> [ club_path_deg |-> 0, face_to_path_deg |-> -10,
                    attack_angle_deg |-> -40, tempo_ratio |-> 300,
                    shoulder_rotation_deg |-> 450, hip_rotation_deg |-> 300,
                    swing_speed_mph |-> 900 ],
      phases |-> <<>>,
      recommendations |-> <<"Upload a clear swing video for detailed analysis">>,
      confidence |-> 500 ]

----------------------------------------------------------------------------
(* The frame sequences the analysis is run on                              *)

\* a golfer facing the camera, in hundredths of the frame; the wrists are at
\* height wrist_y and the hips are shifted sideways by hip_dx
BodyPose(wrist_y, hip_dx) ==
    [ n \in LandmarkNames |->
        CASE n = "left_shoulder"  -> PoseLandmark(40, 30, 10)
          [] n = "right_shoulder" -> PoseLandmark(60, 30, 10)
          [] n = "left_elbow"     -> PoseLandmark(38, 44, 10)
          [] n = "right_elbow"    -> PoseLandmark(62, 44, 10)
          [] n = "left_wrist"     -> PoseLandmark(44, wrist_y, 10)
          [] n = "right_wrist"    -> PoseLandmark(56, wrist_y, 10)
          [] n = "left_hip"       -> PoseLandmark(44 + hip_dx, 60, 10)
          [] n = "right_hip"      -> PoseLandmark(56 + hip_dx, 60, 10)
          [] n = "left_knee"      -> PoseLandmark(44, 76, 10)
          [] n = "right_knee"     -> PoseLandmark(56, 76, 10)
          [] n = "left_ankle"     -> PoseLandmark(44, 92, 10)
          [] n = "right_ankle"    -> PoseLandmark(56, 92, 10) ]

\* a landmark map without the landmarks named in absent
Without(landmarks, absent) ==
    [ n \in (DOMAIN landmarks) \ absent |-> landmarks[n] ]

WristPatterns == { "right", "left", "one_missing", "few" }

HipPatterns == { "still", "sway", "none", "one", "two" }

GapPatterns == { "none", "alternate" }

FpsChoices == { 0, 25 }

JumpChoices == { 3, 15 }

\* where the wrist is highest: 0 for a wrist that never moves, else the
\* 1-based position of the top of the backswing
TopChoices(n) == { 0, 1, (n + 1) \div 2, n - 2, n } \cap 0..n

SwingParams ==
    { [ kind |-> "swing_frames", n |-> n, top |-> top, jump |-> jump,
        wrists |-> w, hips |-> h, gaps |-> g, fps |-> fps ] :
        n \in 0..MaxFrames, top \in 0..MaxFrames, jump \in JumpChoices,
        w \in WristPatterns, h \in HipPatterns, g \in GapPatterns,
        fps \in FpsChoices }

\* the wrist height of frame i: a V with its lowest value at p.top, and a
\* jump of 4 from frame p.top + p.jump on
WristY(p, i) ==
    IF p.top = 0 THEN 24
    ELSE 24 + Abs(i - p.top) + (IF i >= p.top + p.jump THEN 4 ELSE 0)

AbsentLandmarks(p, i) ==
    (CASE p.wrists = "right" -> {}
       [] p.wrists = "left" -> {"right_wrist"}
       [] p.wrists = "one_missing" ->
            IF i = 3 THEN {"left_wrist", "right_wrist"} ELSE {}
       [] p.wrists = "few" ->
            IF i <= 4 THEN {} ELSE {"left_wrist", "right_wrist"})
    \cup
    (CASE p.hips \in {"still", "sway"} -> {}
       [] p.hips = "none" -> {"left_hip", "right_hip"}
       [] p.hips = "one" -> IF i = 2 THEN {} ELSE {"left_hip", "right_hip"}
       [] p.hips = "two" -> IF i \in {2, 5} THEN {} ELSE {"left_hip", "right_hip"})

FrameNumber(p, i) == IF p.gaps = "none" THEN i - 1 ELSE 2 * (i - 1) + 1

\* the surviving frame sequence described by p
SwingFrames(p) ==
    [ i \in 1..p.n |->
        SwingFrame(FrameNumber(p, i), Timestamp(FrameNumber(p, i), p.fps),
            Without(BodyPose(WristY(p, i), IF p.hips = "sway" THEN 2 * (i % 2) ELSE 0),
                    AbsentLandmarks(p, i))) ]

----------------------------------------------------------------------------
(* Specification of SwingAnalyzer.analyze_video                            *)

NoResult == [status |-> "none"]

\* the MongoDB collections video_uploads and swing_analyses, both empty
EmptyDb == [video_uploads |-> EmptyDict, swing_analyses |-> <<>>]

\* UPLOAD_DIR without a file: the uploaded videos by file id, and the video
\* ids that have a ghost_skeleton_{video_id}.mp4
EmptyDisk == [videos |-> EmptyDict, overlays |-> {}]

\* the state of the server before the first request; the analysers do not
\* touch it
NoServerState == db = EmptyDb /\ disk = EmptyDisk /\ uuids = {}

InitSwing ==
    /\ pc = "start"
    /\ input \in { p \in SwingParams : p.top \in TopChoices(p.n) }
    /\ frames = SwingFrames(input)
    /\ result = NoResult
    /\ NoServerState

AnalyzeVideo ==
    /\ pc = "start"
    /\ input.kind = "swing_frames"
    /\ result' = analyze_video(frames)
    /\ pc' = "done"
    /\ UNCHANGED <<input, frames, db, disk, uuids>>

NextSwing == AnalyzeVideo

SpecSwing == InitSwing /\ [][NextSwing]_vars

----------------------------------------------------------------------------
(* Specification of server.process_golf_video_analysis                     *)

ServerGapPatterns == { "none", "alternate", "head" }

ServerFpsChoices == { 5, 25 }

VisibilityPatterns == { "visible", "half", "hidden" }

ServerParams ==
    { [ kind |-> "frame_data", n |-> n, top |-> (n + 1) \div 2, jump |-> 3,
        wrists |-> w, hips |-> h, gaps |-> g, fps |-> fps, visibility |-> v ] :
        n \in 0..MaxFrames, w \in WristPatterns, h \in HipPatterns \ {"sway"},
        g \in ServerGapPatterns, fps \in ServerFpsChoices, v \in VisibilityPatterns }

\* the frame index of the i-th frame with a pose: every frame has one, every
\* second frame has one, or the first five frames have none
ServerFrameIndex(p, i) ==
    CASE p.gaps = "none" -> i - 1
      [] p.gaps = "alternate" -> 2 * (i - 1) + 1
      [] p.gaps = "head" -> i + 4

\* the visibility of landmark n in frame i, in tenths
VisibilityOf(p, i, n) ==
    CASE p.visibility = "visible" -> 10
      [] p.visibility = "half" -> IF n \in {"left_wrist", "left_elbow", "left_knee"} THEN 5 ELSE 6
      [] p.visibility = "hidden" -> IF i % 2 = 0 THEN 3 ELSE 10

WithVisibility(landmarks, p, i) ==
    [ n \in DOMAIN landmarks |->
        PoseLandmark(landmarks[n].x, landmarks[n].y, VisibilityOf(p, i, n)) ]

\* the frame_data described by p; pixel coordinates of a 100 x 100 frame
ServerFrames(p) ==
    [ i \in 1..p.n |->
        PoseData(ServerFrameIndex(p, i), p.fps,
            WithVisibility(Without(BodyPose(WristY(p, i), 0), AbsentLandmarks(p, i)), p, i)) ]

InitServer ==
    /\ pc = "start"
    /\ input \in ServerParams
    /\ frames = ServerFrames(input)
    /\ result = NoResult
    /\ NoServerState

ProcessGolfVideoAnalysis ==
    /\ pc = "start"
    /\ input.kind = "frame_data"
    /\ result' = process_golf_video_analysis(frames)
    /\ pc' = "done"
    /\ UNCHANGED <<input, frames, db, disk, uuids>>

NextServer == ProcessGolfVideoAnalysis

SpecServer == InitServer /\ [][NextServer]_vars

----------------------------------------------------------------------------
(* Specification of the scorer and of the three recommendation generators, *)
(* each applied to a metrics input                                         *)

MaxAngles == 30

\* the dicts that hold key with a value of S, or do not hold it
Opt(key, S) == {EmptyDict} \cup { key :> v : v \in S }

Returned(op, value) == [status |-> "returned", op |-> op, value |-> value]

TempoChoices ==
    { [num |-> 0, den |-> 1], [num |-> 19, den |-> 10], [num |-> 2, den |-> 1],
      [num |-> 5, den |-> 2], [num |-> 7, den |-> 2], [num |-> 4, den |-> 1],
      [num |-> 41, den |-> 10], [num |-> -1, den |-> 1], [num |-> NaN, den |-> 1] }

HipMovementChoices == { 0, 4, 5, 10, 11, 15, 16, 500 }

RangePatterns == { "steady", "medium", "wild", "mixed" }

\* the range of the i-th tracked angle
RangeAt(pattern, i) ==
    CASE pattern = "steady" -> 10
      [] pattern = "medium" -> 20
      [] pattern = "wild" -> 40
      [] pattern = "mixed" -> IF i % 3 = 0 THEN 14 ELSE IF i % 3 = 1 THEN 31 ELSE 15

\* body_angles with any number of tracked angles, keyed 1..k
IndexedAngles ==
    { [ i \in 1..k |-> [range |-> RangeAt(pattern, i)] ] :
        k \in 0..MaxAngles, pattern \in RangePatterns }

\* body_angles over the angle names the recommendations read
NamedAngles ==
    { a @@ b @@ c :
        a \in Opt("spine_tilt", { [range |-> r] : r \in {20, 21, NaN} }),
        b \in Opt("left_arm", { [range |-> r] : r \in {10} }),
        c \in Opt("right_arm", { [range |-> r] : r \in {10, 25, 26} }) }

SwingAnalysisInputs ==
    { [ kind |-> "swing_analysis", keys |-> "indexed",
        analysis |-> [swing_metrics |-> m, body_angles |-> a, movement_analysis |-> h] ] :
        m \in Opt("tempo_ratio", TempoChoices),
        a \in IndexedAngles,
        h \in Opt("hip_stability", { [total_movement |-> t] : t \in {0, 5, 16} }) }
    \cup
    { [ kind |-> "swing_analysis", keys |-> "named",
        analysis |-> [swing_metrics |-> m, body_angles |-> a, movement_analysis |-> h] ] :
        m \in Opt("tempo_ratio", TempoChoices),
        a \in NamedAngles,
        h \in Opt("hip_stability", { [total_movement |-> t] : t \in HipMovementChoices }) }

BiomechanicalInputs ==
    { [ kind |-> "biomechanical_data",
        data |-> [overall_metrics |-> a @@ b @@ c, ghost_skeleton_insights |-> q @@ t] ] :
        a \in Opt("spine_angle_avg",
                  { [num |-> n, den |-> 1] : n \in {0, 5, 10, 25, 26} }),
        b \in Opt("spine_angle_std",
                  { [var_num |-> n, var_den |-> 1] : n \in {0, 100, 101} }),
        c \in Opt("arm_extension_consistency",
                  { [var_num |-> n, var_den |-> 1] : n \in {225, 226} }),
        q \in Opt("pose_tracking_quality",
                  { [num |-> n, den |-> 100] : n \in {69, 70, 100} }),
        t \in Opt("swing_tempo",
                  { [tempo |-> x, duration |-> 0] : x \in {"fast", "moderate", "slow", "unknown"} }) }

FastMetricsInputs ==
    { [ kind |-> "fast_metrics", metrics |-> a @@ b @@ c @@ d @@ e ] :
        a \in Opt("club_path_deg", {-41, -40, 5, 10, 41}),
        b \in Opt("face_to_path_deg", {-31, 0, 31}),
        c \in Opt("attack_angle_deg", {-61, -40, -19}),
        d \in Opt("tempo_ratio", {249, 300, 351}),
        e \in Opt("swing_speed_mph", {849, 900, 1051}) }

InitScore ==
    /\ pc = "start"
    /\ input \in SwingAnalysisInputs \cup BiomechanicalInputs \cup FastMetricsInputs
    /\ frames = <<>>
    /\ result = NoResult
    /\ NoServerState

CalculateOverallScore ==
    /\ pc = "start"
    /\ input.kind = "swing_analysis"
    /\ result' = Returned("calculate_overall_score", calculate_overall_score(input.analysis))
    /\ pc' = "done"
    /\ UNCHANGED <<input, frames, db, disk, uuids>>

GenerateRecommendations ==
    /\ pc = "start"
    /\ input.kind = "swing_analysis"
    /\ input.keys = "named"
    /\ result' = Returned("SwingAnalyzer._generate_recommendations",
                          SwingAnalyzer_generate_recommendations(input.analysis))
    /\ pc' = "done"
    /\ UNCHANGED <<input, frames, db, disk, uuids>>

GenerateSwingRecommendations ==
    /\ pc = "start"
    /\ input.kind = "biomechanical_data"
    /\ result' = Returned("generate_swing_recommendations",
                          generate_swing_recommendations(input.data))
    /\ pc' = "done"
    /\ UNCHANGED <<input, frames, db, disk, uuids>>

FastGenerateRecommendations ==
    /\ pc = "start"
    /\ input.kind = "fast_metrics"
    /\ result' = Returned("FastSwingAnalyzer._generate_recommendations",
                          FastSwingAnalyzer_generate_recommendations(input.metrics))
    /\ pc' = "done"
    /\ UNCHANGED <<input, frames, db, disk, uuids>>

NextScore ==
    \/ CalculateOverallScore
    \/ GenerateRecommendations
    \/ GenerateSwingRecommendations
    \/ FastGenerateRecommendations

SpecScore == InitScore /\ [][NextScore]_vars

----------------------------------------------------------------------------
(* Specification of the angle functions, each applied to points of a grid  *)

GridMax == 2

GridPoints == { [x |-> x, y |-> y] : x \in 0..1, y \in 0..GridMax }

InitAngle ==
    /\ pc = "start"
    /\ input \in { [kind |-> "points", point1 |-> a, point2 |-> b, point3 |-> c, point4 |-> d] :
                     a \in GridPoints, b \in GridPoints, c \in GridPoints, d \in GridPoints }
    /\ frames = <<>>
    /\ result = NoResult
    /\ NoServerState

\* PoseAnalyzer.calculate_angle(point1, point2, point3)
CalculateAngle ==
    /\ pc = "start"
    /\ input.kind = "points"
    /\ result' = Returned("PoseAnalyzer.calculate_angle",
                   PoseAnalyzer_calculate_angle(input.point1, input.point2, input.point3))
    /\ pc' = "done"
    /\ UNCHANGED <<input, frames, db, disk, uuids>>

\* the spine tilt of extract_golf_angles, with the hips at point1 and point2
\* and the shoulders at point3 and point4
CalculateSpineTilt ==
    /\ pc = "start"
    /\ input.kind = "points"
    /\ result' = Returned("PoseAnalyzer.extract_golf_angles.spine_tilt",
                   SpineTilt([ n \in {"left_hip", "right_hip", "left_shoulder", "right_shoulder"} |->
                       CASE n = "left_hip" -> input.point1
                         [] n = "right_hip" -> input.point2
                         [] n = "left_shoulder" -> input.point3
                         [] n = "right_shoulder" -> input.point4 ]))
    /\ pc' = "done"
    /\ UNCHANGED <<input, frames, db, disk, uuids>>

\* GolfPoseDetector.calculate_joint_angle(point1, point2, point3)
CalculateJointAngle ==
    /\ pc = "start"
    /\ input.kind = "points"
    /\ result' = Returned("GolfPoseDetector.calculate_joint_angle",
                   GolfPoseDetector_calculate_joint_angle(input.point1, input.point2, input.point3))
    /\ pc' = "done"
    /\ UNCHANGED <<input, frames, db, disk, uuids>>

\* GolfPoseDetector.calculate_spine_angle, with the shoulders at point3 and
\* point4 and the hips at point1 and point2
CalculateSpineAngle ==
    /\ pc = "start"
    /\ input.kind = "points"
    /\ result' = Returned("GolfPoseDetector.calculate_spine_angle",
                   GolfPoseDetector_calculate_spine_angle(input.point3, input.point4,
                       input.point1, input.point2))
    /\ pc' = "done"
    /\ UNCHANGED <<input, frames, db, disk, uuids>>

NextAngle ==
    \/ CalculateAngle
    \/ CalculateSpineTilt
    \/ CalculateJointAngle
    \/ CalculateSpineAngle

SpecAngle == InitAngle /\ [][NextAngle]_vars

----------------------------------------------------------------------------
(* Specification of calculate_pose_tracking_quality, applied to frame_data *)
(* whose landmark maps may be empty                                        *)

MaxQualityFrames == 3

QualityVisibilities == { 5, 6, 10 }

\* landmark maps over the two wrists: empty, one wrist or both
QualityLandmarkMaps ==
    { a @@ b :
        a \in Opt("left_wrist", { PoseLandmark(44, 30, v) : v \in QualityVisibilities }),
        b \in Opt("right_wrist", { PoseLandmark(56, 30, v) : v \in QualityVisibilities }) }

QualityFrames(maps) ==
    [ i \in DOMAIN maps |->
        [ frame_index |-> i - 1, timestamp |-> (i - 1) * 40,
          landmarks |-> maps[i], angles |-> calculate_golf_angles(maps[i]) ] ]

InitQuality ==
    /\ pc = "start"
    /\ \E n \in 0..MaxQualityFrames :
         \E maps \in [1..n -> QualityLandmarkMaps] :
            /\ input = [kind |-> "quality_frames", n |-> n]
            /\ frames = QualityFrames(maps)
    /\ result = NoResult
    /\ NoServerState

CalculatePoseTrackingQuality ==
    /\ pc = "start"
    /\ input.kind = "quality_frames"
    /\ result' = Returned("calculate_pose_tracking_quality",
                          calculate_pose_tracking_quality(frames))
    /\ pc' = "done"
    /\ UNCHANGED <<input, frames, db, disk, uuids>>

NextQuality == CalculatePoseTrackingQuality

SpecQuality == InitQuality /\ [][NextQuality]_vars

----------------------------------------------------------------------------
(* Specification of FastSwingAnalyzer.quick_analysis, run twice on the     *)
(* same video                                                              *)

\* what _analyze_video_opencv returns: duration in ms, motion_intensity
VideoMetricsChoices ==
    { [kind |-> "video_metrics", duration |-> d, motion_intensity |-> m] :
        d \in {0, 1500, 3000, 6000}, m \in {0, 50, 200} }

\* values the six random.uniform calls can return, in the units of the
\* metric they feed
RandomDraws ==
    { [ club_path |-> -30, face_to_path |-> -40, attack_angle |-> -80,
        tempo |-> 0, shoulder |-> -50, swing_speed |-> -50 ],
      [ club_path |-> 30, face_to_path |-> 20, attack_angle |-> -20,
        tempo |-> 30, shoulder |-> 100, swing_speed |-> 150 ],
      [ club_path |-> 5, face_to_path |-> -10, attack_angle |-> -40,
        tempo |-> 15, shoulder |-> 0, swing_speed |-> 50 ] }

\* elapsed seconds between the two clock readings, in tenths
ProcessingTimes == { 5, 25, 120 }

Runs == 2

InitQuick ==
    /\ pc = "start"
    /\ input \in VideoMetricsChoices
    /\ frames = <<>>
    /\ result = [status |-> "runs", runs |-> <<>>]
    /\ NoServerState

\* one call of quick_analysis(video_path) that returns normally
QuickAnalysis ==
    /\ input.kind = "video_metrics"
    /\ Len(result.runs) < Runs
    /\ \E draw \in RandomDraws, processing_time \in ProcessingTimes :
         result' = [result EXCEPT !.runs =
                      Append(@, quick_analysis(input, draw, processing_time))]
    /\ pc' = "called"
    /\ UNCHANGED <<input, frames, db, disk, uuids>>

\* one call of quick_analysis(video_path) in which an exception is caught
QuickAnalysisFails ==
    /\ input.kind = "video_metrics"
    /\ Len(result.runs) < Runs
    /\ result' = [result EXCEPT !.runs = Append(@, fallback_analysis)]
    /\ pc' = "called"
    /\ UNCHANGED <<input, frames, db, disk, uuids>>

NextQuick == QuickAnalysis \/ QuickAnalysisFails

SpecQuick == InitQuick /\ [][NextQuick]_vars

----------------------------------------------------------------------------
(* Specification of the angle maps: extract_golf_angles and                 *)
(* calculate_golf_angles applied to every landmark map                      *)

InitLandmarks ==
    /\ pc = "start"
    /\ input \in { [kind |-> "landmarks", landmarks |-> Without(BodyPose(24, 0), absent)] :
                     absent \in SUBSET LandmarkNames }
    /\ frames = <<>>
    /\ result = NoResult
    /\ NoServerState

ExtractGolfAngles ==
    /\ pc = "start"
    /\ input.kind = "landmarks"
    /\ result' = Returned("PoseAnalyzer.extract_golf_angles",
                          extract_golf_angles(input.landmarks))
    /\ pc' = "done"
    /\ UNCHANGED <<input, frames, db, disk, uuids>>

CalculateGolfAngles ==
    /\ pc = "start"
    /\ input.kind = "landmarks"
    /\ result' = Returned("GolfPoseDetector.calculate_golf_angles",
                          calculate_golf_angles(input.landmarks))
    /\ pc' = "done"
    /\ UNCHANGED <<input, frames, db, disk, uuids>>

NextLandmarks == ExtractGolfAngles \/ CalculateGolfAngles

SpecLandmarks == InitLandmarks /\ [][NextLandmarks]_vars

----------------------------------------------------------------------------
(* Specification of the frame loops of SwingAnalyzer.analyze_video and of   *)
(* process_golf_video_analysis: the frames of a video are read one by one;  *)
(* for each frame the pose source detects a pose, detects none, or raises   *)

MaxVideoFrames == 6

Detections == { "pose", "none", "raises" }

\* the videos: which analyser reads them, the frame rate cv2 reports and what
\* the pose source does on each frame
Videos ==
    { [kind |-> "video", analyser |-> a, fps |-> fps, detections |-> d] :
        a \in {"SwingAnalyzer", "server"}, fps \in FpsChoices,
        d \in UNION { [1..n -> Detections] : n \in 0..MaxVideoFrames } }

\* the loop before the first cap.read(): no frame kept, no frame annotated
Reading(frame_number, annotated) ==
    [status |-> "reading", frame_number |-> frame_number, annotated |-> annotated]

\* process_golf_video_analysis validates fps > 0 before its loop
InitFrames ==
    /\ pc = "reading"
    /\ input \in { v \in Videos : v.analyser = "server" => v.fps > 0 }
    /\ frames = <<>>
    /\ result = Reading(0, <<>>)
    /\ NoServerState

\* one pass of the loop of analyze_video: a frame with a pose is kept and its
\* annotated copy is kept; a frame without a pose leaves both lists alone
AnalyzeVideoReadsFrame ==
    /\ pc = "reading"
    /\ input.analyser = "SwingAnalyzer"
    /\ result.frame_number < Len(input.detections)
    /\ LET frame_number == result.frame_number
           detection == input.detections[frame_number + 1]
           timestamp == Timestamp(frame_number, input.fps)
       IN  CASE detection = "pose" ->
                  /\ frames' = Append(frames,
                                   SwingFrame(frame_number, timestamp, BodyPose(24, 0)))
                  /\ result' = Reading(frame_number + 1,
                                       Append(result.annotated, frame_number))
                  /\ pc' = "reading"
             [] detection = "none" ->
                  /\ frames' = frames
                  /\ result' = Reading(frame_number + 1, result.annotated)
                  /\ pc' = "reading"
             [] detection = "raises" ->
                  /\ frames' = frames
                  /\ result' = [ status |-> "error", frame_number |-> frame_number,
                                 annotated |-> result.annotated ]
                  /\ pc' = "failed"
    /\ UNCHANGED <<input, db, disk, uuids>>

\* cap.read() of analyze_video returns no frame: with fewer than 5 frames kept
\* ValueError is raised, else the annotated video is written
AnalyzeVideoEndsReading ==
    /\ pc = "reading"
    /\ input.analyser = "SwingAnalyzer"
    /\ result.frame_number = Len(input.detections)
    /\ IF Len(frames) < 5
       THEN /\ pc' = "failed"
            /\ result' = [result EXCEPT !.status = "error"]
       ELSE /\ pc' = "read"
            /\ result' = [result EXCEPT !.status = "annotated_video"]
    /\ UNCHANGED <<input, frames, db, disk, uuids>>

\* the pass of the loop of process_golf_video_analysis with frame_data.append
\* outside "if pose_data": a frame is stored for every frame that is read
ProcessGolfVideoKeepsEveryFrame ==
    /\ pc = "reading"
    /\ input.analyser = "server"
    /\ result.frame_number < Len(input.detections)
    /\ LET frame_index == result.frame_number
       IN  /\ frames' = Append(frames, PoseData(frame_index, input.fps, BodyPose(24, 0)))
           /\ result' = Reading(frame_index + 1, Append(result.annotated, frame_index))
    /\ UNCHANGED <<pc, input, db, disk, uuids>>

\* one pass of the loop of process_golf_video_analysis: pose_data is kept when
\* a pose is detected; the annotated frame, or the frame itself when
\* detect_pose raises, is written to the overlay
ProcessGolfVideoReadsFrame ==
    /\ pc = "reading"
    /\ input.analyser = "server"
    /\ result.frame_number < Len(input.detections)
    /\ LET frame_index == result.frame_number
           detection == input.detections[frame_index + 1]
       IN  /\ frames' = IF detection = "pose"
                        THEN Append(frames, PoseData(frame_index, input.fps, BodyPose(24, 0)))
                        ELSE frames
           /\ result' = Reading(frame_index + 1, Append(result.annotated, frame_index))
    /\ UNCHANGED <<pc, input, db, disk, uuids>>

\* cap.read() of process_golf_video_analysis returns no frame:
\* overlay_writer.release()
ProcessGolfVideoEndsReading ==
    /\ pc = "reading"
    /\ input.analyser = "server"
    /\ result.frame_number = Len(input.detections)
    /\ pc' = "read"
    /\ result' = [result EXCEPT !.status = "annotated_video"]
    /\ UNCHANGED <<input, frames, db, disk, uuids>>

NextFrames ==
    \/ AnalyzeVideoReadsFrame
    \/ AnalyzeVideoEndsReading
    \/ ProcessGolfVideoReadsFrame
    \/ ProcessGolfVideoEndsReading

SpecFrames == InitFrames /\ [][NextFrames]_vars

----------------------------------------------------------------------------
(* server.py: the HTTP handlers.  An uploaded file is its content type, the *)
(* suffix of its file name, and its content: the length in bytes, the video *)
(* signature the leading bytes hold and the offset of that signature, and   *)
(* what cv2 reads from it.                                                  *)

SUPPORTED_VIDEO_FORMATS ==
    { "video/mp4", "video/avi", "video/quicktime", "video/x-msvideo",
      "video/webm", "video/ogg", "video/x-matroska", "video/3gpp",
      "video/x-flv", "video/x-ms-wmv", "video/mov" }

video_extensions ==
    { ".mp4", ".avi", ".mov", ".mkv", ".webm", ".ogg", ".3gp", ".flv", ".wmv" }

\* Path(filename).suffix.lower(), for the suffixes of the model
SuffixLower(suffix) ==
    CASE suffix = ".MKV" -> ".mkv"
      [] suffix = ".MP4" -> ".mp4"
      [] OTHER -> suffix

\* mimetypes.guess_type(filename)[0] by the suffix; "" stands for None
GuessType(suffix) ==
    CASE SuffixLower(suffix) = ".mp4" -> "video/mp4"
      [] SuffixLower(suffix) = ".mkv" -> "video/x-matroska"
      [] SuffixLower(suffix) = ".ogv" -> "video/ogg"
      [] SuffixLower(suffix) = ".txt" -> "text/plain"
      [] SuffixLower(suffix) = ".jpg" -> "image/jpeg"
      [] OTHER -> ""

\* is_video_file(content_type, filename)
is_video_file(content_type, suffix) ==
    \/ content_type \in SUPPORTED_VIDEO_FORMATS
    \/ GuessType(suffix) \in SUPPORTED_VIDEO_FORMATS
    \/ SuffixLower(suffix) \in video_extensions

\* signature in content[:k]: the four bytes of the signature lie within the
\* first k bytes of the content
SignatureWithin(content, k) ==
    /\ content.signature # "none"
    /\ content.at + 4 <= Min2(k, content.len)

\* is_valid_video_content(content): a signature within the first 32 bytes, or
\* ftyp, mdat or moov within the first 100 bytes
is_valid_video_content(content) ==
    IF content.len < 4 THEN FALSE
    ELSE \/ SignatureWithin(content, 32)
         \/ content.signature \in {"ftyp", "mdat", "moov"} /\ SignatureWithin(content, 100)

\* extension_map.get(file.content_type, '.mp4')
extension_map(content_type) ==
    CASE content_type = "video/mp4" -> ".mp4"
      [] content_type = "video/quicktime" -> ".mov"
      [] content_type = "video/x-msvideo" -> ".avi"
      [] content_type = "video/webm" -> ".webm"
      [] content_type = "video/ogg" -> ".ogv"
      [] content_type = "video/x-matroska" -> ".mkv"
      [] OTHER -> ".mp4"

\* a response of a handler: the status code and what the body tells
Response(op, status_code, body) ==
    [status |-> "response", op |-> op, status_code |-> status_code, body |-> body]

\* what a handler leaves: the collections, the upload directory, the response
Outcome(database, upload_dir, response) ==
    [db |-> database, disk |-> upload_dir, response |-> response]

\* the try block of upload_video(request, file); file_id is the value
\* uuid.uuid4() returns; a response of status 400 is a raised HTTPException
upload_video_try(database, upload_dir, file, file_id) ==
    IF ~is_video_file(file.content_type, file.suffix)
    THEN Outcome(database, upload_dir, Response("upload_video", 400,
             "Unsupported file format. Supported formats: MP4, AVI, MOV, MKV, WebM, OGG, 3GP, FLV, WMV"))
    ELSE IF file.content.len < 1024
    THEN Outcome(database, upload_dir, Response("upload_video", 400,
             "File too small to be a valid video. Please upload a proper video file."))
    ELSE IF ~is_valid_video_content(file.content)
    THEN Outcome(database, upload_dir, Response("upload_video", 400,
             "Invalid video file content. Please upload a valid video file."))
    ELSE
    LET file_extension == IF SuffixLower(file.suffix) # "" THEN SuffixLower(file.suffix)
                          ELSE extension_map(file.content_type)
        video_upload ==
            [ id |-> file_id,
              file_extension |-> file_extension,
              original_suffix |-> file.suffix,
              file_size |-> file.content.len,
              content_type |-> IF file.content_type # "" THEN file.content_type
                               ELSE "video/mp4",
              file_path |-> file_id ]
    IN  Outcome([database EXCEPT !.video_uploads = @ @@ (file_id :> video_upload)],
                [upload_dir EXCEPT !.videos = @ @@ (file_id :> file.content)],
                Response("upload_video", 200, video_upload))

\* upload_video with "except Exception" alone, without "except HTTPException:
\* raise" before it: a raised HTTPException is answered as status 500
upload_video_catch_all(database, upload_dir, file, file_id) ==
    LET tried == upload_video_try(database, upload_dir, file, file_id)
    IN  IF tried.response.status_code = 200 THEN tried
        ELSE Outcome(database, upload_dir,
                     Response("upload_video", 500, "Upload failed"))

\* upload_video with the file written before the content is validated: a file
\* without a video signature is on disk when the request is answered 400
upload_video_writes_first(database, upload_dir, file, file_id) ==
    LET tried == upload_video_try(database, upload_dir, file, file_id)
    IN  IF /\ is_video_file(file.content_type, file.suffix)
           /\ file.content.len >= 1024
           /\ ~is_valid_video_content(file.content)
        THEN Outcome(database,
                     [upload_dir EXCEPT !.videos = @ @@ (file_id :> file.content)],
                     tried.response)
        ELSE tried

\* upload_video(request, file): the try block, and "except HTTPException:
\* raise", which passes a raised HTTPException on as it is
upload_video(database, upload_dir, file, file_id) ==
    upload_video_try(database, upload_dir, file, file_id)

\* the files of an upload request: every content type and suffix of the model
\* with every content
UploadContentTypes == { "video/mp4", "text/plain", "application/octet-stream", "" }

UploadSuffixes == { ".mp4", ".MKV", ".ogv", ".txt", ".jpg", "" }

UploadLengths == { 0, 3, 1023, 1024, 2048 }

UploadContents ==
    { [len |-> n, signature |-> "none", at |-> 0, video |-> "unreadable"] :
        n \in UploadLengths }
    \cup
    { c \in [ len : UploadLengths, signature : {"ftyp", "RIFF"},
              at : {0, 4, 28, 29, 40, 96, 97}, video : {"unreadable", "swing"} ] :
        c.at + 4 <= c.len }

UploadFiles ==
    [ content_type : UploadContentTypes, suffix : UploadSuffixes, content : UploadContents ]

UploadRequest(file) == [kind |-> "request", op |-> "upload_video", file |-> file]

\* Specification of POST /upload on a server without uploads
InitUpload ==
    /\ pc = "start"
    /\ input = [kind |-> "none"]
    /\ frames = <<>>
    /\ result = NoResult
    /\ NoServerState

\* POST /upload with any file
UploadAnyFile ==
    /\ pc = "start"
    /\ \E file \in UploadFiles :
         LET out == upload_video(db, disk, file, 1)
         IN  /\ input' = UploadRequest(file)
             /\ db' = out.db
             /\ disk' = out.disk
             /\ result' = out.response
             /\ uuids' = IF out.response.status_code = 200 THEN uuids \cup {1} ELSE uuids
    /\ pc' = "done"
    /\ UNCHANGED frames

NextUpload == UploadAnyFile

SpecUpload == InitUpload /\ [][NextUpload]_vars

\* the frame_data the frame loop of process_golf_video_analysis collects from
\* a video cv2 can read: a swing of 12 frames with a pose, or no pose at all
VideoFrames(video) ==
    IF video = "swing"
    THEN ServerFrames([ kind |-> "frame_data", n |-> 12, top |-> 6, jump |-> 3,
                        wrists |-> "right", hips |-> "still", gaps |-> "none",
                        fps |-> 25, visibility |-> "visible" ])
    ELSE <<>>

\* analysis_result of process_golf_video_analysis after "except Exception"
video_analysis_failed ==
    [ status |-> "failed",
      swing_phases |-> <<>>,
      biomechanical_data |-> [error |-> "Analysis failed due to video processing error"],
      recommendations |->
          << "Video analysis failed: Invalid video file or corrupted video properties",
             "Please try uploading a different video with clear visibility of the golfer." >>,
      total_frames |-> 0 ]

\* process_golf_video_analysis(video_path, video_id) on the file content: cv2
\* reports no valid properties of an unreadable file, ValueError is raised
\* before the overlay writer exists and the fallback result is returned; for
\* a readable file the overlay ghost_skeleton_{video_id}.mp4 is written
process_golf_video(upload_dir, video_id, content) ==
    IF content.video = "unreadable"
    THEN [disk |-> upload_dir, analysis_result |-> video_analysis_failed]
    ELSE [ disk |-> [upload_dir EXCEPT !.overlays = @ \cup {video_id}],
           analysis_result |-> process_golf_video_analysis(VideoFrames(content.video)) ]

\* analyze_golf_swing(video_id)
analyze_golf_swing(database, upload_dir, video_id) ==
    IF ~Has(database.video_uploads, video_id)
    THEN Outcome(database, upload_dir,
                 Response("analyze_golf_swing", 404, "Video not found"))
    ELSE IF ~Has(upload_dir.videos, database.video_uploads[video_id].file_path)
    THEN Outcome(database, upload_dir,
                 Response("analyze_golf_swing", 404, "Video file not found on disk"))
    ELSE
    LET file_path == database.video_uploads[video_id].file_path
        processed == process_golf_video(upload_dir, video_id, upload_dir.videos[file_path])
        swing_analysis ==
            [ video_id |-> video_id,
              swing_phases |-> processed.analysis_result.swing_phases,
              biomechanical_data |-> processed.analysis_result.biomechanical_data,
              recommendations |-> processed.analysis_result.recommendations ]
    IN  Outcome([database EXCEPT !.swing_analyses = Append(@, swing_analysis)],
                processed.disk,
                Response("analyze_golf_swing", 200, processed.analysis_result))

\* get_video_file(video_id)
get_video_file(database, upload_dir, video_id) ==
    IF ~Has(database.video_uploads, video_id)
    THEN Outcome(database, upload_dir, Response("get_video_file", 404, "Video not found"))
    ELSE IF ~Has(upload_dir.videos, database.video_uploads[video_id].file_path)
    THEN Outcome(database, upload_dir,
                 Response("get_video_file", 404, "Video file not found on disk"))
    ELSE Outcome(database, upload_dir,
                 Response("get_video_file", 200,
                          upload_dir.videos[database.video_uploads[video_id].file_path]))

\* get_ghost_skeleton_video(video_id)
get_ghost_skeleton_video(database, upload_dir, video_id) ==
    IF video_id \notin upload_dir.overlays
    THEN Outcome(database, upload_dir,
                 Response("get_ghost_skeleton_video", 404, "Ghost skeleton overlay not found"))
    ELSE Outcome(database, upload_dir,
                 Response("get_ghost_skeleton_video", 200, "ghost_skeleton.mp4"))

\* the positions in swing_analyses of the records of a video
AnalysesOf(database, video_id) ==
    { i \in DOMAIN database.swing_analyses :
        database.swing_analyses[i].video_id = video_id }

\* get_swing_analysis(video_id): find_one returns the first record of the video
get_swing_analysis(database, upload_dir, video_id) ==
    IF AnalysesOf(database, video_id) = {}
    THEN Outcome(database, upload_dir,
                 Response("get_swing_analysis", 404, "Analysis not found"))
    ELSE Outcome(database, upload_dir,
                 Response("get_swing_analysis", 200,
                     database.swing_analyses[
                         CHOOSE i \in AnalysesOf(database, video_id) :
                             \A j \in AnalysesOf(database, video_id) : i <= j ]))

\* swing_analyses.delete_one({"video_id": video_id}): the collection without
\* the first record of the video
delete_one_analysis(swing_analyses, video_id) ==
    LET matching == { i \in DOMAIN swing_analyses : swing_analyses[i].video_id = video_id }
        first == CHOOSE i \in matching : \A j \in matching : i <= j
    IN  IF matching = {} THEN swing_analyses
        ELSE SubSeq(swing_analyses, 1, first - 1)
             \o SubSeq(swing_analyses, first + 1, Len(swing_analyses))

\* delete_video without the look-up of the upload record: whatever carries
\* the id is removed and the deletion is reported
delete_video_without_lookup(database, upload_dir, video_id) ==
    Outcome([ video_uploads |-> Without(database.video_uploads, {video_id}),
              swing_analyses |-> delete_one_analysis(database.swing_analyses, video_id) ],
            [ videos |-> Without(upload_dir.videos, {video_id}),
              overlays |-> upload_dir.overlays \ {video_id} ],
            Response("delete_video", 200, "Video and analysis deleted successfully"))

\* delete_video(video_id)
delete_video(database, upload_dir, video_id) ==
    IF ~Has(database.video_uploads, video_id)
    THEN Outcome(database, upload_dir, Response("delete_video", 404, "Video not found"))
    ELSE
    LET file_path == database.video_uploads[video_id].file_path
    IN  Outcome([ video_uploads |-> Without(database.video_uploads, {video_id}),
                  swing_analyses |-> delete_one_analysis(database.swing_analyses, video_id) ],
                [ videos |-> Without(upload_dir.videos, {file_path}),
                  overlays |-> upload_dir.overlays \ {video_id} ],
                Response("delete_video", 200, "Video and analysis deleted successfully"))

----------------------------------------------------------------------------
(* Specification of the server: requests served one after the other        *)

MaxUploads == 2

MaxAnalyses == 2

\* the video ids of the requests; an id above the number of uploads made so
\* far has never been uploaded
VideoIds == 1..MaxUploads

\* the files uploaded to the server: three videos that pass the validation,
\* a text file, a file named as a video that is too small and one that holds
\* no video signature
ApiFiles ==
    { [ content_type |-> "video/mp4", suffix |-> ".mp4",
        content |-> [len |-> 2048, signature |-> "ftyp", at |-> 4, video |-> v] ] :
        v \in {"swing", "no_pose", "unreadable"} }
    \cup
    { [ content_type |-> "text/plain", suffix |-> ".txt",
        content |-> [len |-> 2048, signature |-> "none", at |-> 0, video |-> "unreadable"] ],
      [ content_type |-> "video/mp4", suffix |-> ".mp4",
        content |-> [len |-> 1023, signature |-> "ftyp", at |-> 4, video |-> "unreadable"] ],
      [ content_type |-> "video/mp4", suffix |-> ".mp4",
        content |-> [len |-> 2048, signature |-> "none", at |-> 0, video |-> "unreadable"] ] }

Request(op, video_id) == [kind |-> "request", op |-> op, video_id |-> video_id]

InitApi ==
    /\ pc = "serving"
    /\ input = [kind |-> "none"]
    /\ frames = <<>>
    /\ result = NoResult
    /\ NoServerState

\* the server state and the response after a handler
Served(out) ==
    /\ db' = out.db
    /\ disk' = out.disk
    /\ result' = out.response
    /\ UNCHANGED <<pc, frames>>

\* POST /upload; uuid.uuid4() returns an id it has not returned before
UploadVideo ==
    /\ pc = "serving"
    /\ Cardinality(uuids) < MaxUploads
    /\ \E file \in ApiFiles :
         LET file_id == Cardinality(uuids) + 1
             out == upload_video(db, disk, file, file_id)
         IN  /\ input' = UploadRequest(file)
             /\ uuids' = IF out.response.status_code = 200
                         THEN uuids \cup {file_id} ELSE uuids
             /\ Served(out)

\* POST /analyze/{video_id}
AnalyzeGolfSwing ==
    /\ pc = "serving"
    /\ Len(db.swing_analyses) < MaxAnalyses
    /\ \E video_id \in VideoIds :
         /\ input' = Request("analyze_golf_swing", video_id)
         /\ Served(analyze_golf_swing(db, disk, video_id))
    /\ UNCHANGED uuids

\* GET /uploads/{video_id}
GetVideoFile ==
    /\ pc = "serving"
    /\ \E video_id \in VideoIds :
         /\ input' = Request("get_video_file", video_id)
         /\ Served(get_video_file(db, disk, video_id))
    /\ UNCHANGED uuids

\* GET /ghost-skeleton/{video_id}
GetGhostSkeletonVideo ==
    /\ pc = "serving"
    /\ \E video_id \in VideoIds :
         /\ input' = Request("get_ghost_skeleton_video", video_id)
         /\ Served(get_ghost_skeleton_video(db, disk, video_id))
    /\ UNCHANGED uuids

\* GET /analysis/{video_id}
GetSwingAnalysis ==
    /\ pc = "serving"
    /\ \E video_id \in VideoIds :
         /\ input' = Request("get_swing_analysis", video_id)
         /\ Served(get_swing_analysis(db, disk, video_id))
    /\ UNCHANGED uuids

\* DELETE /uploads/{video_id}
DeleteVideo ==
    /\ pc = "serving"
    /\ \E video_id \in VideoIds :
         /\ input' = Request("delete_video", video_id)
         /\ Served(delete_video(db, disk, video_id))
    /\ UNCHANGED uuids

NextApi ==
    \/ UploadVideo
    \/ AnalyzeGolfSwing
    \/ GetVideoFile
    \/ GetGhostSkeletonVideo
    \/ GetSwingAnalysis
    \/ DeleteVideo

SpecApi == InitApi /\ [][NextApi]_vars

----------------------------------------------------------------------------
(* Specification of POST /analyze/{id} and DELETE /uploads/{id} served at   *)
(* the same time for the same video.  Both handlers are coroutines of one   *)
(* event loop: the code between two awaits of MongoDB runs without          *)
(* interruption, and each operation on a collection takes effect on its own *)

\* the files POST /upload accepts
AcceptedFiles ==
    { file \in ApiFiles : upload_video(EmptyDb, EmptyDisk, file, 1).response.status_code = 200 }

\* the server after the uploads of files[1], ..., files[n] with the ids 1..n
RECURSIVE ServerAfterUploads(_, _)
ServerAfterUploads(files, n) ==
    IF n = 0 THEN Outcome(EmptyDb, EmptyDisk, NoResult)
    ELSE LET before == ServerAfterUploads(files, n - 1)
         IN  upload_video(before.db, before.disk, files[n], n)

\* both requests received, no handler has run yet
InitRace ==
    /\ pc = [analyze_golf_swing |-> "find_one", delete_video |-> "find_one"]
    /\ frames = <<>>
    /\ result = [analyze_golf_swing |-> NoResult, delete_video |-> NoResult]
    /\ \E n \in 1..MaxUploads :
         \E files \in [1..n -> AcceptedFiles], video_id \in 1..n :
           /\ input = [kind |-> "requests", video_id |-> video_id]
           /\ db = ServerAfterUploads(files, n).db
           /\ disk = ServerAfterUploads(files, n).disk
           /\ uuids = 1..n

\* a handler is at a position and moves on with what it holds, or returns
HandlerMoves(handler, to, holds) ==
    /\ pc' = [pc EXCEPT ![handler] = to]
    /\ result' = [result EXCEPT ![handler] = holds]
    /\ UNCHANGED <<input, frames, uuids>>

\* what find_one({"id": video_id}) of video_uploads gives to a handler
FoundVideo(video_id) ==
    IF Has(db.video_uploads, video_id)
    THEN [status |-> "video_record", file_path |-> db.video_uploads[video_id].file_path]
    ELSE [status |-> "no_video_record"]

\* analyze_golf_swing: video_record = await db.video_uploads.find_one
AnalyzeFindsVideo ==
    /\ pc.analyze_golf_swing = "find_one"
    /\ IF Has(db.video_uploads, input.video_id)
       THEN HandlerMoves("analyze_golf_swing", "process", FoundVideo(input.video_id))
       ELSE HandlerMoves("analyze_golf_swing", "done",
                         Response("analyze_golf_swing", 404, "Video not found"))
    /\ UNCHANGED <<db, disk>>

\* analyze_golf_swing from file_path.exists() to the call of insert_one:
\* process_golf_video_analysis awaits nothing
AnalyzeProcessesVideo ==
    /\ pc.analyze_golf_swing = "process"
    /\ LET file_path == result.analyze_golf_swing.file_path
       IN  IF ~Has(disk.videos, file_path)
           THEN /\ HandlerMoves("analyze_golf_swing", "done",
                       Response("analyze_golf_swing", 404, "Video file not found on disk"))
                /\ disk' = disk
           ELSE LET processed == process_golf_video(disk, input.video_id, disk.videos[file_path])
                IN  /\ HandlerMoves("analyze_golf_swing", "insert_one",
                            [ status |-> "analysis_result",
                              analysis_result |-> processed.analysis_result ])
                    /\ disk' = processed.disk
    /\ UNCHANGED db

\* analyze_golf_swing: await db.swing_analyses.insert_one, return
AnalyzeInsertsAnalysis ==
    /\ pc.analyze_golf_swing = "insert_one"
    /\ LET analysis_result == result.analyze_golf_swing.analysis_result
           swing_analysis ==
               [ video_id |-> input.video_id,
                 swing_phases |-> analysis_result.swing_phases,
                 biomechanical_data |-> analysis_result.biomechanical_data,
                 recommendations |-> analysis_result.recommendations ]
       IN  /\ db' = [db EXCEPT !.swing_analyses = Append(@, swing_analysis)]
           /\ HandlerMoves("analyze_golf_swing", "done",
                           Response("analyze_golf_swing", 200, analysis_result))
    /\ UNCHANGED disk

\* delete_video: video_record = await db.video_uploads.find_one
DeleteFindsVideo ==
    /\ pc.delete_video = "find_one"
    /\ IF Has(db.video_uploads, input.video_id)
       THEN HandlerMoves("delete_video", "unlink", FoundVideo(input.video_id))
       ELSE HandlerMoves("delete_video", "done",
                         Response("delete_video", 404, "Video not found"))
    /\ UNCHANGED <<db, disk>>

\* delete_video: the file and the overlay are unlinked where they exist
DeleteUnlinksFiles ==
    /\ pc.delete_video = "unlink"
    /\ disk' = [ videos |-> Without(disk.videos, {result.delete_video.file_path}),
                 overlays |-> disk.overlays \ {input.video_id} ]
    /\ HandlerMoves("delete_video", "delete_upload", result.delete_video)
    /\ UNCHANGED db

\* delete_video: await db.video_uploads.delete_one
DeleteDeletesUpload ==
    /\ pc.delete_video = "delete_upload"
    /\ db' = [db EXCEPT !.video_uploads = Without(@, {input.video_id})]
    /\ HandlerMoves("delete_video", "delete_analysis", result.delete_video)
    /\ UNCHANGED disk

\* delete_video: await db.swing_analyses.delete_one, return
DeleteDeletesAnalysis ==
    /\ pc.delete_video = "delete_analysis"
    /\ db' = [db EXCEPT !.swing_analyses = delete_one_analysis(@, input.video_id)]
    /\ HandlerMoves("delete_video", "done",
                    Response("delete_video", 200, "Video and analysis deleted successfully"))
    /\ UNCHANGED disk

NextRace ==
    \/ AnalyzeFindsVideo
    \/ AnalyzeProcessesVideo
    \/ AnalyzeInsertsAnalysis
    \/ DeleteFindsVideo
    \/ DeleteUnlinksFiles
    \/ DeleteDeletesUpload
    \/ DeleteDeletesAnalysis

SpecRace == InitRace /\ [][NextRace]_vars

----------------------------------------------------------------------------
(* server.py: ConnectionManager and the real-time analysis WebSocket.  Each *)
(* connection is one WebSocket object, served by one run of                 *)
(* websocket_realtime_analysis.  A text the client sends is known by what   *)
(* the handler does with it; a send is delivered or raises, as the peer     *)
(* still is or no longer is there.                                          *)

MaxSockets == 2

WebSockets == 1..MaxSockets

\* the texts of a client: a frame cv2 decodes, a frame cv2.imdecode returns
\* None for, a message of another type, a text that is no JSON, a JSON object
\* without 'type', a video_frame without 'frame_data', and frame_data that is
\* no base64
Texts == { "video_frame", "undecodable_frame", "other_type", "bad_json", "no_type", "no_frame_data", "bad_base64" }

\* the texts on which json.loads, message['type'], message['frame_data'] or
\* base64.b64decode raises
RaisingTexts == { "bad_json", "no_type", "no_frame_data", "bad_base64" }

\* list.remove: the first occurrence leaves the list
ListRemove(list, x) ==
    LET i == CHOOSE k \in 1..Len(list) : list[k] = x /\ \A j \in 1..(k - 1) : list[j] # x
    IN  SubSeq(list, 1, i - 1) \o SubSeq(list, i + 1, Len(list))

\* ConnectionManager.connect, after websocket.accept()
connect(active_connections, websocket) == Append(active_connections, websocket)

\* ConnectionManager.disconnect
disconnect(active_connections, websocket) ==
    IF websocket \in Range(active_connections)
    THEN ListRemove(active_connections, websocket)
    ELSE active_connections

\* ConnectionManager.send_personal_message: a send that raises disconnects
send_personal_message(active_connections, websocket, delivered) ==
    IF delivered THEN active_connections ELSE disconnect(active_connections, websocket)

\* the manager and what each websocket was last sent
Manager(active_connections, sent) ==
    [active_connections |-> active_connections, sent |-> sent]

InitSocket ==
    /\ pc = [ws \in WebSockets |-> "unconnected"]
    /\ input = [ws \in WebSockets |-> "nothing"]
    /\ frames = <<>>
    /\ result = Manager(<<>>, [ws \in WebSockets |-> "nothing"])
    /\ NoServerState

\* websocket_realtime_analysis starts: manager.connect
WebsocketConnects(websocket) ==
    /\ pc[websocket] = "unconnected"
    /\ pc' = [pc EXCEPT ![websocket] = "receiving"]
    /\ result' = [result EXCEPT !.active_connections = connect(@, websocket)]
    /\ UNCHANGED <<input, frames, db, disk, uuids>>

\* one pass of the loop: receive_text returns data.  A decoded frame is
\* answered with analyzed_frame; an undecodable frame and a message of
\* another type are passed over; a text that raises ends the handler in
\* "except Exception", which sends an error message and returns
WebsocketReceivesText(websocket, data, delivered) ==
    /\ pc[websocket] = "receiving"
    /\ input' = [input EXCEPT ![websocket] = data]
    /\ CASE data = "video_frame" ->
              /\ pc' = pc
              /\ result' = Manager(
                     send_personal_message(result.active_connections, websocket, delivered),
                     IF delivered THEN [result.sent EXCEPT ![websocket] = "analyzed_frame"]
                                  ELSE result.sent)
         [] data \in RaisingTexts ->
              /\ pc' = [pc EXCEPT ![websocket] = "ended"]
              /\ result' = Manager(
                     send_personal_message(result.active_connections, websocket, delivered),
                     IF delivered THEN [result.sent EXCEPT ![websocket] = "error"]
                                  ELSE result.sent)
         [] OTHER ->
              /\ pc' = pc
              /\ result' = result
    /\ UNCHANGED <<frames, db, disk, uuids>>

\* receive_text raises WebSocketDisconnect: manager.disconnect, and the
\* handler returns
WebsocketReceivesDisconnect(websocket) ==
    /\ pc[websocket] = "receiving"
    /\ pc' = [pc EXCEPT ![websocket] = "ended"]
    /\ input' = [input EXCEPT ![websocket] = "disconnect"]
    /\ result' = [result EXCEPT !.active_connections = disconnect(@, websocket)]
    /\ UNCHANGED <<frames, db, disk, uuids>>

NextSocket ==
    \/ \E websocket \in WebSockets : WebsocketConnects(websocket)
    \/ \E websocket \in WebSockets, data \in Texts, delivered \in BOOLEAN : WebsocketReceivesText(websocket, data, delivered)
    \/ \E websocket \in WebSockets : WebsocketReceivesDisconnect(websocket)

SpecSocket == InitSocket /\ [][NextSocket]_vars

----------------------------------------------------------------------------
(* Specification of both analysers, SwingAnalyzer.analyze_video and        *)
(* process_golf_video_analysis, for the properties that concern both       *)

InitAnalysis == InitSwing \/ InitServer

NextAnalysis == AnalyzeVideo \/ ProcessGolfVideoAnalysis

SpecAnalysis == InitAnalysis /\ [][NextAnalysis]_vars

----------------------------------------------------------------------------
(* Properties                                                              *)

\* C1: for every sequence of N >= 10 frames the phase list is not empty, its
\* first phase starts at 0, its last phase ends at N - 1, and each phase
\* starts one frame after the end of the phase before it.
C1_PhasesPartitionTheSequence ==
    (pc = "done" /\ input.kind = "frame_data" /\ Len(frames) >= 10) =>
        LET phases == result.swing_phases
        IN  /\ Len(phases) > 0
            /\ phases[1].start_frame = 0
            /\ phases[Len(phases)].end_frame = Len(frames) - 1
            /\ \A i \in 1..(Len(phases) - 1) :
                   phases[i + 1].start_frame = phases[i].end_frame + 1

\* C2: for every sequence of fewer than 10 frames, 5 to 9 included,
\* analyze_video ends in an error and returns no result record.
C2_FewerThanTenFramesIsAnError ==
    (pc = "done" /\ input.kind = "swing_frames" /\ Len(frames) < 10) =>
        result.status = "error"

\* C3: the overall score is an integer of 0..100, whatever the tempo ratio,
\* the number and the ranges of the tracked angles and the hip movement are.
C3_ScoreWithinZeroAndHundred ==
    (pc = "done" /\ result.op = "calculate_overall_score") =>
        result.value \in 0..100

\* C3, the case reached: a sum below 0 has been clamped to the score 0.
C3_NegativeSumClamped ==
    /\ pc = "done"
    /\ result.op = "calculate_overall_score"
    /\ raw_score(input.analysis) < 0
    /\ result.value = 0

\* C4: each of the three recommendation generators returns 3 to 6 sentences,
\* none of them twice.
C4_ThreeToSixDistinctRecommendations ==
    (pc = "done" /\ result.op \in { "SwingAnalyzer._generate_recommendations",
                                    "generate_swing_recommendations",
                                    "FastSwingAnalyzer._generate_recommendations" }) =>
        /\ Len(result.value) \in 3..6
        /\ \A i, j \in DOMAIN result.value : i # j => result.value[i] # result.value[j]

\* C5: swing_metrics holds tempo_ratio if and only if the phases were detected
\* and the impact timestamp minus the top-of-backswing timestamp is above 0.
C5_TempoRatioIffPositiveDownswing ==
    (pc = "done" /\ input.kind = "swing_frames" /\ result.status = "ok") =>
        LET phases == result.swing_analysis.swing_phases
        IN  Has(result.swing_analysis.swing_metrics, "tempo_ratio")
            <=> /\ ~Has(phases, "error")
                /\ phases["impact"].timestamp - phases["top_of_backswing"].timestamp > 0

\* C5, the case reached: the phases were detected at 25 frames per second, the
\* impact is the frame of the top of the backswing, and tempo_ratio is absent.
C5_NoDownswingNoTempoRatio ==
    /\ pc = "done"
    /\ input.kind = "swing_frames"
    /\ input.fps = 25
    /\ result.status = "ok"
    /\ ~Has(result.swing_analysis.swing_phases, "error")
    /\ result.swing_analysis.swing_phases["impact"].timestamp
         <= result.swing_analysis.swing_phases["top_of_backswing"].timestamp
    /\ ~Has(result.swing_analysis.swing_metrics, "tempo_ratio")

\* C6: when the vertex coincides with one of the two other points, or the
\* shoulder centre with the hip centre, every angle function returns 0.
C6_ZeroLengthVectorGivesZero ==
    (pc = "done" /\ input.kind = "points") =>
        /\ ( /\ result.op \in { "PoseAnalyzer.calculate_angle",
                                "GolfPoseDetector.calculate_joint_angle" }
             /\ (input.point1 = input.point2 \/ input.point3 = input.point2) )
           => result.value = 0
        /\ ( /\ result.op \in { "PoseAnalyzer.extract_golf_angles.spine_tilt",
                                "GolfPoseDetector.calculate_spine_angle" }
             /\ input.point1.x + input.point2.x = input.point3.x + input.point4.x
             /\ input.point1.y + input.point2.y = input.point3.y + input.point4.y )
           => result.value = 0

\* C7: two runs of quick_analysis on the same video that both return normally
\* give the same metrics, phases, recommendations and confidence.
C7_TwoRunsGiveTheSameResult ==
    ( /\ Len(result.runs) = 2
      /\ result.runs[1].status = "ok"
      /\ result.runs[2].status = "ok" ) =>
        /\ result.runs[1].metrics = result.runs[2].metrics
        /\ result.runs[1].phases = result.runs[2].phases
        /\ result.runs[1].recommendations = result.runs[2].recommendations
        /\ result.runs[1].confidence = result.runs[2].confidence

\* the angle a key of a phase's key_metrics or of overall_metrics reports
AngleOfKey(key) ==
    CASE key \in { "avg_spine_angle", "spine_angle_consistency", "spine_angle_avg",
                   "spine_angle_std", "spine_angle_range" } -> "spine_angle"
      [] key = "avg_left_arm_angle" -> "left_arm_angle"
      [] key \in { "avg_right_arm_angle", "arm_extension_avg",
                   "arm_extension_consistency" } -> "right_arm_angle"

\* the positions in frames of the frames of a phase: those whose frame_index
\* lies in [start_frame, end_frame]
FramesOfPhase(phase) ==
    { j \in DOMAIN frames :
        phase.start_frame <= frames[j].frame_index /\ frames[j].frame_index <= phase.end_frame }

\* C8: body_angles has an entry for an angle only if a frame of the sequence
\* carries it; overall_metrics has a key of an angle only if a frame of the
\* sequence carries it; the key_metrics of a phase has a key of an angle only
\* if a frame of the phase carries it.
C8_EntryOnlyForCarriedAngle ==
    pc = "done" =>
        /\ (input.kind = "swing_frames" /\ result.status = "ok") =>
              \A a \in DOMAIN result.swing_analysis.body_angles :
                  \E j \in DOMAIN frames : Has(frames[j].angles, a)
        /\ input.kind = "frame_data" =>
              /\ \A k \in DOMAIN result.biomechanical_data.overall_metrics :
                     \E j \in DOMAIN frames : Has(frames[j].angles, AngleOfKey(k))
              /\ \A i \in DOMAIN result.swing_phases :
                     \A k \in DOMAIN result.swing_phases[i].key_metrics :
                         \E j \in FramesOfPhase(result.swing_phases[i]) :
                             Has(frames[j].angles, AngleOfKey(k))

\* C8, the case reached: a phase has frames, none of them carries the spine
\* angle, and its key_metrics reports the left arm angle and no spine angle.
C8_PhaseWithoutSpineAngle ==
    /\ pc = "done"
    /\ input.kind = "frame_data"
    /\ \E i \in DOMAIN result.swing_phases :
           /\ FramesOfPhase(result.swing_phases[i]) # {}
           /\ \A j \in FramesOfPhase(result.swing_phases[i]) :
                  ~Has(frames[j].angles, "spine_angle")
           /\ Has(result.swing_phases[i].key_metrics, "avg_left_arm_angle")
           /\ ~Has(result.swing_phases[i].key_metrics, "avg_spine_angle")

\* the positions of the frames that carry both hips
FramesWithBothHips ==
    { j \in DOMAIN frames :
        Has(frames[j].landmarks, "left_hip") /\ Has(frames[j].landmarks, "right_hip") }

\* C9: movement_analysis holds hip_stability if and only if at least 2 frames
\* carry both the left_hip and the right_hip landmark.
C9_HipStabilityIffTwoHipFrames ==
    (pc = "done" /\ input.kind = "swing_frames" /\ result.status = "ok") =>
        ( Has(result.swing_analysis.movement_analysis, "hip_stability")
          <=> Cardinality(FramesWithBothHips) >= 2 )

\* C9, the case reached: exactly one frame carries both hips and
\* hip_stability is absent.
C9_OneHipFrameNoHipStability ==
    /\ pc = "done"
    /\ input.kind = "swing_frames"
    /\ result.status = "ok"
    /\ Cardinality(FramesWithBothHips) = 1
    /\ ~Has(result.swing_analysis.movement_analysis, "hip_stability")

\* the number of landmarks of frame j with visibility above 0.5, times
\* QualityDen over the number of its landmarks; 0 for a frame without landmarks
VisibleShare(j) ==
    IF DOMAIN frames[j].landmarks = {} THEN 0
    ELSE Cardinality({ n \in DOMAIN frames[j].landmarks :
                         frames[j].landmarks[n].visibility > 5 })
           * (QualityDen \div Cardinality(DOMAIN frames[j].landmarks))

FramesWithLandmarks == { j \in DOMAIN frames : DOMAIN frames[j].landmarks # {} }

\* the greatest common divisor of a >= 0 and b >= 0
RECURSIVE Gcd(_, _)
Gcd(a, b) == IF b = 0 THEN a ELSE Gcd(b, a % b)

\* the quotient num / den, den > 0, in lowest terms
Lowest(num, den) == [num |-> num \div Gcd(num, den), den |-> den \div Gcd(num, den)]

\* C10 as stated: pose_tracking_quality is the mean over all frames, those
\* without landmarks included, of the share of visible landmarks, and 0 when
\* no frame has a landmark.
C10_MeanOverAllFrames ==
    (pc = "done" /\ result.op = "calculate_pose_tracking_quality") =>
        IF FramesWithLandmarks = {} THEN result.value.num = 0
        ELSE Lowest(result.value.num, result.value.den)
               = Lowest(SumSeq([j \in DOMAIN frames |-> VisibleShare(j)]),
                        QualityDen * Len(frames))

\* C10 amended: pose_tracking_quality is the mean over the frames that have
\* landmarks of the share of visible landmarks, and 0 when no frame has a
\* landmark; it lies in [0, 1]; it is 1 when some frame has a landmark and
\* every landmark of every frame has visibility 1.0.
C10_MeanOverFramesWithLandmarks ==
    (pc = "done" /\ result.op = "calculate_pose_tracking_quality") =>
        /\ result.value.den > 0
        /\ IF FramesWithLandmarks = {} THEN result.value.num = 0
           ELSE Lowest(result.value.num, result.value.den)
                  = Lowest(SumSeq([j \in DOMAIN frames |-> VisibleShare(j)]),
                           QualityDen * Cardinality(FramesWithLandmarks))
        /\ 0 <= result.value.num /\ result.value.num <= result.value.den
        /\ ( /\ FramesWithLandmarks # {}
             /\ \A j \in DOMAIN frames : \A n \in DOMAIN frames[j].landmarks :
                    frames[j].landmarks[n].visibility = 10 )
           => result.value.num = result.value.den

\* C10, the case reached: one frame has no landmark, another has landmarks
\* that are all visible, and the quality is 1.
C10_FrameWithoutLandmarksNotCounted ==
    /\ pc = "done"
    /\ result.op = "calculate_pose_tracking_quality"
    /\ \E j \in DOMAIN frames : DOMAIN frames[j].landmarks = {}
    /\ FramesWithLandmarks # {}
    /\ result.value.num = result.value.den

\* C12: POST /upload answers 400 for a file whose content type and file name
\* are no video format, for a file of fewer than 1024 bytes, and for a file
\* without a video signature; it never answers 500.
C12_FailedValidationAnswers400 ==
    (pc = "done" /\ input.kind = "request" /\ input.op = "upload_video") =>
        /\ ( \/ ( /\ input.file.content_type \notin SUPPORTED_VIDEO_FORMATS
                  /\ input.file.suffix \in {".txt", ".jpg", ""} )
             \/ input.file.content.len < 1024
             \/ input.file.content.signature = "none" )
           => result.status_code = 400
        /\ result.status_code # 500

\* C12, the case reached: a file named .mp4 and sent as video/mp4, of 1024
\* bytes or more and without a video signature, is answered 400.
C12_FakeMp4Answered400 ==
    /\ pc = "done"
    /\ input.kind = "request" /\ input.op = "upload_video"
    /\ input.file.content_type = "video/mp4"
    /\ input.file.suffix = ".mp4"
    /\ input.file.content.len >= 1024
    /\ input.file.content.signature = "none"
    /\ result.status_code = 400
    /\ db = EmptyDb /\ disk = EmptyDisk

\* the positions of the frames that carry a wrist the segmenter can use: the
\* right wrist or else the left wrist
FramesWithWrist ==
    { j \in DOMAIN frames :
        Has(frames[j].landmarks, "right_wrist") \/ Has(frames[j].landmarks, "left_wrist") }

\* C11: for every sequence of at least 10 frames of which fewer than 5 carry
\* the wrist, _detect_swing_phases reports no error; it reports an error only
\* for fewer than 10 frames.
C11_FewWristFramesIsNoError ==
    (pc = "done" /\ input.kind = "swing_frames" /\ result.status = "ok") =>
        /\ (Len(frames) >= 10 /\ Cardinality(FramesWithWrist) < 5) =>
               ~Has(result.swing_analysis.swing_phases, "error")
        /\ Has(result.swing_analysis.swing_phases, "error") => Len(frames) < 10

\* C13: a request GET /uploads/{id}, POST /analyze/{id} or DELETE /uploads/{id}
\* for an id that has no upload record, because it was never uploaded or
\* because it was deleted, is answered with status 404 and changes neither the
\* collections of the database nor the files of the upload directory.
C13_UnknownIdAnswers404 ==
    [][ ( /\ input'.kind = "request"
          /\ input'.op \in {"get_video_file", "analyze_golf_swing", "delete_video"}
          /\ ~Has(db.video_uploads, input'.video_id) )
        => ( /\ result'.status_code = 404
             /\ db' = db
             /\ disk' = disk ) ]_vars

\* a second DELETE of an uploaded and deleted video was answered 404
C13_DeletedVideoNotFound ==
    /\ input.kind = "request"
    /\ input.op = "delete_video"
    /\ input.video_id \in uuids
    /\ ~Has(db.video_uploads, input.video_id)
    /\ result.status_code = 404

\* C14: after DELETE /uploads/{id} answered with success, no upload record, no
\* video file, no overlay file and no analysis record of the id remains, and
\* GET /analysis/{id} is answered 404, whatever uploads and analyses came
\* before.
C14_NothingRemainsAfterDelete ==
    ( /\ input.kind = "request"
      /\ input.op = "delete_video"
      /\ result.status_code = 200 )
    => ( /\ ~Has(db.video_uploads, input.video_id)
         /\ ~Has(disk.videos, input.video_id)
         /\ input.video_id \notin disk.overlays
         /\ AnalysesOf(db, input.video_id) = {}
         /\ get_swing_analysis(db, disk, input.video_id).response.status_code = 404 )

\* C15: for every video that POST /analyze/{id} answered 200 and that has not
\* been deleted since, GET /analysis/{id} and GET /ghost-skeleton/{id} are
\* answered 200.  A video has an upload record and an analysis record exactly
\* when it was analysed with success and not deleted since.
C15_AnalysedVideoIsServed ==
    \A video_id \in VideoIds :
        ( /\ Has(db.video_uploads, video_id)
          /\ AnalysesOf(db, video_id) # {} )
        => ( /\ get_swing_analysis(db, disk, video_id).response.status_code = 200
             /\ get_ghost_skeleton_video(db, disk, video_id).response.status_code = 200 )

\* C16: the confidence of every result of FastSwingAnalyzer.quick_analysis, on
\* the normal path for any processing time and on the fallback path, lies in
\* [0, 1]; the confidence is in thousandths.
C16_ConfidenceWithinZeroAndOne ==
    result.status = "runs" =>
        \A i \in DOMAIN result.runs :
            /\ result.runs[i].confidence >= 0
            /\ result.runs[i].confidence <= 1000

ThresholdRules ==
    { [ place |-> 1, sentences |->
          { "Work on swing path - coming over the top. Practice inside-out drills.",
            "Swing path too inside - focus on proper takeaway and plane.",
            "Excellent swing path! Maintain this consistency." } ],
      [ place |-> 1, sentences |->
          { "Club face open at impact - work on grip and release.",
            "Club face closed at impact - check grip strength." } ],
      [ place |-> 1, sentences |->
          { "Too steep - practice hitting up on the ball more.",
            "Angle of attack too shallow - work on descending blow.",
            "Good attack angle for solid contact." } ],
      [ place |-> 2, sentences |->
          { "Backswing too quick - slow down for better timing.",
            "Backswing too slow - add some rhythm to downswing.",
            "Great tempo ratio - maintain this timing." } ],
      [ place |-> 2, sentences |->
          { "Your swing is too quick - try slowing down your backswing for better tempo",
            "Your backswing is too slow - try to create more rhythm between backswing and downswing",
            "Good swing tempo - maintain this rhythm" } ],
      [ place |-> 2, sentences |->
          { "Your swing tempo is quite fast. Try slowing down for better control and consistency.",
            "Your swing tempo is quite slow. Consider slightly increasing pace for more natural rhythm." } ],
      [ place |-> 3, sentences |->
          { "Try to maintain spine angle throughout the swing - excessive movement can affect consistency" } ],
      [ place |-> 3, sentences |->
          { "Work on arm synchronization - both arms should move more similarly throughout the swing" } ],
      [ place |-> 3, sentences |->
          { "Consider maintaining a more upright posture at address. Your spine angle is quite bent.",
            "You might benefit from slightly more forward bend in your posture for better swing plane." } ],
      [ place |-> 3, sentences |->
          { "Focus on maintaining consistent posture throughout your swing for better repeatability." } ],
      [ place |-> 3, sentences |->
          { "Work on maintaining consistent arm extension for more reliable ball striking." } ],
      [ place |-> 4, sentences |->
          { "Focus on maintaining stable lower body - excessive hip movement can affect balance" } ],
      [ place |-> 5, sentences |->
          { "Consider practicing in better lighting or with less background clutter for improved analysis accuracy." } ],
      [ place |-> 0, sentences |->
          { "Work on generating more clubhead speed through rotation.",
            "Great speed! Focus on control and consistency." } ] }

\* the place of the rule a sentence comes from; 0 for a sentence of no rule
PlaceOf(sentence) ==
    IF \E rule \in ThresholdRules : sentence \in rule.sentences
    THEN (CHOOSE rule \in ThresholdRules : sentence \in rule.sentences).place
    ELSE 0

\* C18: in the list of each recommender the sentences of the threshold rules
\* stand in the order club/swing path, tempo, body-angle consistency, movement
\* stability, detection quality, and no rule gives more than one sentence.
C18_RuleSentencesInFixedOrder ==
    (pc = "done" /\ result.op \in { "SwingAnalyzer._generate_recommendations",
                                    "generate_swing_recommendations",
                                    "FastSwingAnalyzer._generate_recommendations" }) =>
        /\ \A i, j \in DOMAIN result.value :
               ( /\ i < j
                 /\ PlaceOf(result.value[i]) # 0
                 /\ PlaceOf(result.value[j]) # 0 )
               => PlaceOf(result.value[i]) <= PlaceOf(result.value[j])
        /\ \A rule \in ThresholdRules :
               Cardinality({ i \in DOMAIN result.value :
                               result.value[i] \in rule.sentences }) <= 1

\* the sentences with which a threshold rule reports that its metric is in
\* the good range
GoodRangeSentences ==
    { "Good swing tempo - maintain this rhythm",
      "Excellent swing path! Maintain this consistency.",
      "Good attack angle for solid contact.",
      "Great tempo ratio - maintain this timing.",
      "Great speed! Focus on control and consistency." }

\* the sentences with which a threshold rule reports an issue
IssueSentences ==
    UNION { rule.sentences : rule \in ThresholdRules } \ GoodRangeSentences

\* the messages that everything looks solid, of SwingAnalyzer and of server.py
SolidMessages ==
    { "Overall swing mechanics look good - continue practicing to maintain consistency",
      "Great swing! Your biomechanics look solid. Keep practicing to maintain consistency." }

\* C19: when no rule reports an issue, a tempo in the good range included, the
\* list of SwingAnalyzer._generate_recommendations and of
\* generate_swing_recommendations holds the message that everything looks
\* solid exactly once and before every generic entry; when a rule reports an
\* issue the list does not hold the message.
C19_SolidMessageIffNoIssue ==
    (pc = "done" /\ result.op \in { "SwingAnalyzer._generate_recommendations",
                                    "generate_swing_recommendations" }) =>
        LET issues == { i \in DOMAIN result.value : result.value[i] \in IssueSentences }
            solid == { i \in DOMAIN result.value : result.value[i] \in SolidMessages }
            generic == { i \in DOMAIN result.value :
                           result.value[i] \notin SolidMessages
                               \cup UNION { rule.sentences : rule \in ThresholdRules } }
        IN  /\ issues = {} => /\ Cardinality(solid) = 1
                              /\ \A i \in solid, j \in generic : i < j
            /\ issues # {} => solid = {}

\* C20: when the threshold rules of FastSwingAnalyzer._generate_recommendations
\* give fewer than 3 sentences, the entries of the generic pool that the list
\* does not hold yet follow the rule sentences in the order of the pool until
\* the list has exactly 3 entries; the returned list has at most 6 entries.
C20_TopUpStopsAtThree ==
    (pc = "done" /\ result.op = "FastSwingAnalyzer._generate_recommendations") =>
        LET recommendations == result.value
            rules == { i \in DOMAIN recommendations :
                         \E rule \in ThresholdRules : recommendations[i] \in rule.sentences }
            k == Cardinality(rules)
        IN  /\ rules = 1..k
            /\ k < 3 => /\ Len(recommendations) = 3
                        /\ \A i \in (k + 1)..Len(recommendations) :
                               recommendations[i] = additional[i - k]
            /\ k >= 3 => Len(recommendations) = k
            /\ Len(recommendations) <= 6

\* the vertical coordinate of the tracked wrist of the frame at position j:
\* of the right wrist, or else of the left wrist
TrackedWristY(j) ==
    IF Has(frames[j].landmarks, "right_wrist")
    THEN frames[j].landmarks["right_wrist"].y
    ELSE frames[j].landmarks["left_wrist"].y

\* C21: the frame of top_of_backswing is the 0-based position, in the frame
\* sequence, of the first frame whose tracked wrist has the least vertical
\* coordinate of all tracked wrists, and its timestamp is the timestamp of
\* that frame, also when frames of the sequence carry no wrist.
C21_TopIsFirstHighestWristFrame ==
    ( /\ pc = "done"
      /\ input.kind = "swing_frames"
      /\ result.status = "ok"
      /\ ~Has(result.swing_analysis.swing_phases, "error") ) =>
        LET top == CHOOSE j \in FramesWithWrist :
                       /\ \A k \in FramesWithWrist : TrackedWristY(j) <= TrackedWristY(k)
                       /\ \A k \in FramesWithWrist :
                              TrackedWristY(k) = TrackedWristY(j) => j <= k
            reported == result.swing_analysis.swing_phases["top_of_backswing"]
        IN  /\ reported.frame = top - 1
            /\ reported.timestamp = frames[top].timestamp

\* C22: when every frame carries a wrist, the impact frame is the last frame
\* if the top of the backswing is within 5 frames of the end of the sequence,
\* and else a frame among the 15 frames that follow the top (fewer if the
\* sequence ends sooner) whose wrist moved vertically from the frame before, in
\* absolute value, at least as much as that of each of these frames.
C22_ImpactWithinFifteenFrames ==
    ( /\ pc = "done"
      /\ input.kind = "swing_frames"
      /\ result.status = "ok"
      /\ ~Has(result.swing_analysis.swing_phases, "error")
      /\ FramesWithWrist = DOMAIN frames ) =>
        LET N == Len(frames)
            top_index == result.swing_analysis.swing_phases["top_of_backswing"].frame
            impact_index == result.swing_analysis.swing_phases["impact"].frame
            following == (top_index + 1)..Min2(top_index + 15, N - 1)
            displacement(i) == Abs(TrackedWristY(i + 1) - TrackedWristY(i))
        IN  IF top_index >= N - 5
            THEN impact_index = N - 1
            ELSE /\ impact_index \in following
                 /\ \A i \in following : displacement(i) <= displacement(impact_index)

\* the key under which the angle map of each analyser holds an angle
AngleKey(op, angle_name) ==
    IF op = "PoseAnalyzer.extract_golf_angles" THEN angle_name
    ELSE IF angle_name = "spine_tilt" THEN "spine_angle"
    ELSE angle_name \o "_angle"

\* C23: for every landmark map, the angle map built from it holds left_arm,
\* right_arm, left_knee, right_knee and spine_tilt each if and only if the map
\* holds all the landmarks that angle requires.
C23_AngleIffItsLandmarks ==
    (pc = "done" /\ input.kind = "landmarks") =>
        \A angle_name \in { "left_arm", "right_arm", "left_knee", "right_knee", "spine_tilt" } :
            AngleKey(result.op, angle_name) \in DOMAIN result.value
                <=> RequiredLandmarks(angle_name) \subseteq DOMAIN input.landmarks

\* the number under which a kept frame records the input frame it was read
\* from: frame_number in a SwingFrame, frame_index in pose_data
InputFrameOf(frame) ==
    IF "frame_number" \in DOMAIN frame THEN frame.frame_number ELSE frame.frame_index

\* C24: after any number of frames read, the kept sequence holds exactly the
\* frames in which a pose was detected, in the order of the input and without
\* a placeholder for the others; its frame numbers increase strictly and its
\* timestamps do not decrease.
C24_KeptFramesAreTheDetectedFrames ==
    input.kind = "video" =>
        LET detected == { k \in 0..(result.frame_number - 1) :
                            input.detections[k + 1] = "pose" }
        IN  /\ Len(frames) = Cardinality(detected)
            /\ \A i \in DOMAIN frames : InputFrameOf(frames[i]) \in detected
            /\ \A i \in 1..(Len(frames) - 1) :
                   /\ InputFrameOf(frames[i]) < InputFrameOf(frames[i + 1])
                   /\ frames[i].timestamp <= frames[i + 1].timestamp

\* a video read to its end in which a frame without a pose stands between two
\* frames with a pose: the kept sequence has a gap in its frame numbers
C24_UndetectedFrameDropped ==
    /\ input.kind = "video"
    /\ pc = "read"
    /\ \E i \in 1..(Len(frames) - 1) :
           /\ InputFrameOf(frames[i + 1]) = InputFrameOf(frames[i]) + 2
           /\ input.detections[InputFrameOf(frames[i]) + 2] = "none"

\* C25: when the annotated video is produced it holds exactly one frame for
\* each frame of the input, in the order of the input, whether a pose was
\* detected in the frame or not and whether the detection raised or not.
C25_OneAnnotatedFramePerInputFrame ==
    (input.kind = "video" /\ pc = "read") =>
        result.annotated = [ i \in 1..Len(input.detections) |-> i - 1 ]

\* C26: start_frame and end_frame of a phase are 0-based positions in the
\* sequence of surviving frames: the key_metrics of each phase are the metrics
\* of the frames at the positions start_frame..end_frame, and every surviving
\* frame is among the frames of exactly one phase, also when the frame indices
\* of the surviving frames have gaps.
C26_PhaseMetricsByPosition ==
    (pc = "done" /\ input.kind = "frame_data" /\ Len(result.swing_phases) > 0) =>
        LET phases == result.swing_phases
            by_position == [ j \in DOMAIN frames |-> [frames[j] EXCEPT !.frame_index = j - 1] ]
        IN  /\ \A i \in DOMAIN phases :
                   phases[i].key_metrics =
                       extract_phase_metrics(by_position, phases[i].start_frame,
                                             phases[i].end_frame)
            /\ \A j \in DOMAIN frames :
                   Cardinality({ i \in DOMAIN phases : j \in FramesOfPhase(phases[i]) }) = 1

\* C27: whenever _detect_swing_phases reports phases for N frames, its key
\* frames satisfy 0 = setup <= top_of_backswing <= impact <= follow_through
\* = N - 1; the backswing and the downswing then have no negative duration,
\* and tempo_ratio, when present, is not negative.
C27_KeyFramesInOrder ==
    ( /\ pc = "done"
      /\ input.kind = "swing_frames"
      /\ result.status = "ok"
      /\ ~Has(result.swing_analysis.swing_phases, "error") ) =>
        LET phases == result.swing_analysis.swing_phases
            metrics == result.swing_analysis.swing_metrics
        IN  /\ phases["setup"].frame = 0
            /\ phases["setup"].frame <= phases["top_of_backswing"].frame
            /\ phases["top_of_backswing"].frame <= phases["impact"].frame
            /\ phases["impact"].frame <= phases["follow_through"].frame
            /\ phases["follow_through"].frame = Len(frames) - 1
            /\ phases["top_of_backswing"].timestamp - phases["setup"].timestamp >= 0
            /\ phases["impact"].timestamp - phases["top_of_backswing"].timestamp >= 0
            /\ Has(metrics, "tempo_ratio") =>
                   /\ metrics["tempo_ratio"].den > 0
                   /\ metrics["tempo_ratio"].num >= 0

\* phases reported for a sequence in which a frame carries no wrist: the top
\* lies after the setup, the impact after the top, and tempo_ratio is present
C27_TopBetweenSetupAndImpact ==
    /\ pc = "done"
    /\ input.kind = "swing_frames"
    /\ result.status = "ok"
    /\ ~Has(result.swing_analysis.swing_phases, "error")
    /\ FramesWithWrist # DOMAIN frames
    /\ 0 < result.swing_analysis.swing_phases["top_of_backswing"].frame
    /\ result.swing_analysis.swing_phases["top_of_backswing"].frame
         < result.swing_analysis.swing_phases["impact"].frame
    /\ Has(result.swing_analysis.swing_metrics, "tempo_ratio")

\* C28: a POST /upload that is answered 400 writes no file to the upload
\* directory and inserts no upload record; the list GET /uploads returns is the
\* same before and after the request.
C28_RejectedUploadChangesNothing ==
    [][ ( /\ input'.kind = "request"
          /\ input'.op = "upload_video"
          /\ result'.status_code = 400 )
        => ( /\ disk' = disk
             /\ db' = db
             /\ DOMAIN db'.video_uploads = DOMAIN db.video_uploads ) ]_vars

\* a file without a video signature was rejected by a server that holds an
\* upload and an analysis
C28_RejectedOnServerWithUploads ==
    /\ input.kind = "request"
    /\ input.op = "upload_video"
    /\ input.file.content.signature = "none"
    /\ input.file.suffix = ".mp4"
    /\ result.status_code = 400
    /\ DOMAIN db.video_uploads # {}
    /\ Len(db.swing_analyses) > 0

\* C29: a websocket is in ConnectionManager.active_connections only while its
\* handler runs: once websocket_realtime_analysis has ended, by a disconnect
\* or by any other exception, the websocket is no longer in the list
C29_EndedHandlerNotActive ==
    \A websocket \in WebSockets :
        websocket \in Range(result.active_connections) => pc[websocket] = "receiving"

\* C30: however a POST /analyze/{id} and a DELETE /uploads/{id} of the same
\* video interleave, once both have completed a video id without upload
\* record has no analysis record and no ghost-skeleton overlay file
C30_NothingLeftOfDeletedVideo ==
    (pc.analyze_golf_swing = "done" /\ pc.delete_video = "done")
        => \A video_id \in VideoIds :
             ~Has(db.video_uploads, video_id)
                 => AnalysesOf(db, video_id) = {} /\ video_id \notin disk.overlays

=============================================================================
